---- MODULE Spec2Model ----
(***************************************************************************)
(* Model of the IP reputation engine of src/src/core: the Bloom            *)
(* pre-filter (core/bloom/bloom_filter.py), the Cuckoo exact table         *)
(* (core/cuckoo/cuckoo_table.py) and the ReputationManager that composes   *)
(* them (core/manager/reputation_manager.py).                              *)
(*                                                                         *)
(* The specifications share one state:                                     *)
(*   Spec       one caller driving a ReputationManager (report,            *)
(*              fast_check, cuckoo.remove, maybe_rescale, maintenance);    *)
(*   SpecReports, SpecRescale  that caller without maintenance, and on a   *)
(*              manager that already holds up to 17 keys;                  *)
(*   SpecTable, SpecKick  one caller driving a CuckooHashTable alone       *)
(*              (insert of any entry, remove, maybe_rehash);               *)
(*   SpecBloom  one caller driving a BloomFilter alone;                    *)
(*   SpecFilter that caller with estimate_fpr and the getters as well;     *)
(*   SpecLock   several threads calling insert and might_contain on one    *)
(*              BloomFilter, one step per bit inside the lock;             *)
(*   SpecContents, SpecGrow  one caller driving a CuckooHashTable alone,   *)
(*              from the tables of SpecTable and SpecKick together, and    *)
(*              with room for the table to grow to 32 slots;               *)
(*   SpecRace   SpecConc's report_malicious_ip calls alone, overlapping    *)
(*              only on one key;                                           *)
(*   SpecConfig the constructors with valid and invalid arguments;         *)
(*   SpecConc, SpecSwap  several threads calling the manager               *)
(*              concurrently, one step per call that runs under an inner   *)
(*              lock;                                                      *)
(*   SpecChecks SpecConc with room for two fast_check calls;               *)
(*   SpecOrder  the threads of SpecConc, one step per lock acquired or     *)
(*              released and per call made inside or between the locks;    *)
(*   SpecLegacy the earlier manager of src/core (reputation_manager.py,    *)
(*              bloom_filter.py, cuckoo_filter.py);                        *)
(*   SpecEvict  that manager under insert_malicious calls alone;           *)
(*   SpecAlternate  the CuckooFilter of src/core/cuckoo_filter.py under    *)
(*              resize and _alternate_index;                               *)
(*   SpecHash   the CuckooHashTable of src/core/cuckoo_hash.py under       *)
(*              insert;                                                    *)
(*   SpecUnion  two filters of src/core/bloom_filter.py under add, union   *)
(*              and check;                                                 *)
(*   SpecSimple the simple filter of src/src/bloom_filter.py under the run *)
(*              of tests/test_bf.py.                                       *)
(***************************************************************************)
EXTENDS Integers, Sequences, FiniteSets, TLC

(***************************************************************************)
(* Bounds of the model.                                                    *)
(***************************************************************************)
\* Allocation limit, in slots: _rehash to a larger table raises MemoryError.
MaxCapacity == 4
\* max_kicks passed to CuckooHashTable.__init__ (the default is 500).
MaxKicks == 3
\* Cap on rehash_count in SpecTable: no maybe_rehash is issued beyond it.
MaxRehashes == 4
\* Cap on Metrics.insertions: no new key is reported beyond it.
MaxInsertions == 3
\* Cap on Metrics.bloom_checks: no fast_check is issued beyond it.
MaxChecks == 1
\* Cap on the maybe_rescale calls of SpecConc.
MaxRescales == 1
\* Cap on the Bloom size m: no rebuild to a larger filter is started.
MaxBloomBits == 256
\* Threads of SpecConc are 1..NumThreads.
NumThreads == 2
\* Cap on the maybe_rescale calls of SpecSwap.
MaxSwapRescales == 2
\* Cap on the calls made on the earlier manager of src/core.
MaxLegacyCalls == 3
\* Allocation limit of SpecGrow, in slots.
GrowCapacity == 32
\* Cap on the fast_check calls of SpecChecks.
MaxConcChecks == 2
\* Cap on the insert_malicious calls of SpecEvict.
MaxEvictCalls == 17
\* Cap on num_buckets in SpecAlternate: no resize is issued beyond it.
MaxBuckets == 40000
\* Cap on the add calls of SpecUnion.
MaxUnionAdds == 3
\* Cap on the insert calls of SpecHash.
MaxHashCalls == 4
\* Allocation limit of SpecHash, in slots per table: "[None] * capacity"
\* raises MemoryError beyond it.
MaxHashCapacity == 8192

(***************************************************************************)
(* Program constants.                                                      *)
(***************************************************************************)
\* insert: "if self.load_factor() >= 0.9"; also the default cuckoo_load_limit.
LoadLimitNum == 9
LoadLimitDen == 10
\* ReputationManager.__init__: cuckoo_growth_factor = 2.
CuckooGrowthFactor == 2
\* int.from_bytes(..., "big"): one byte is a digit in base 256.
ByteBase == 256
\* bit positions per byte: pos // 8, pos % 8.
BitsPerByte == 8

\* src/core: CHECK_INTERVAL, SLOTS_PER_BUCKET, the least num_buckets, the
\* default fingerprint_bits and the multiplier of _alternate_index.
CheckInterval == 1000
SlotsPerBucket == 4
MinBuckets == 1024
FingerprintBits == 16
AlternateMultiplier == 1540483477
\* src/core/cuckoo_hash.py: the rounds of the eviction loops of insert and
\* of _insert_fingerprint.
InsertRounds == 200
ReinsertRounds == 50
\* Width of the limbs the product of _alternate_index is computed in.
LimbBits == 16
\* src/core: the rounds of the eviction loop of CuckooFilter.insert.
EvictionLimit == 1000

\* tests/test_bf.py: capacity and k_hashes of the filter, the items added
\* and the items probed.
SimpleCapacity == 100
SimpleHashCount == 7
DatasetSize == 100
TestSize == 100

\* The IPKey values the callers use (normalize_key is int(value): an int
\* key is its own normal form).
Keys == {108, 122, 129}

\* The timestamps the callers pass.
Timestamps == {1, 2}

\* The timestamps the threads of SpecConc pass.
ConcTimestamps == {1}

\* growth_factor arguments of maybe_rehash in SpecTable.
GrowthFactors == {0, 1, 2, 3}

\* capacity arguments of CuckooHashTable.__init__: of the manager's table
\* in Spec and SpecConc, of the table of SpecTable.
ManagerCapacities == {2}
TableCapacities == {1, 2, 3}

\* (m_bits, k_hash) arguments of BloomFilter.__init__:
\* BloomParams.for_capacity(1, 0.05) = (8, 6).
InitBloomParams == {<<8, 6>>}

Threads == 1..NumThreads

\* Keys whose two slots coincide: 61 and 97 share one slot at every
\* capacity up to 8, 10 shares it at capacity 2 only.
KickKeys == {10, 61, 97}

\* Keys of SpecGrow: 28 and 240 share one slot at every capacity up to 16,
\* 61 and 97 at every capacity up to 8.
GrowKeys == {28, 61, 97, 240}

\* The keys of SpecRescale, in the order they are reported, and the
\* capacity of its table: no key's slots are taken when it is inserted.
ManyKeySeq ==
    <<201, 202, 203, 204, 205, 207, 208, 210, 212, 213, 217, 218, 220, 221,
      226, 237, 239>>
ManyKeys == {ManyKeySeq[i] : i \in 1..Len(ManyKeySeq)}
ManyCapacities == {32}

(***************************************************************************)
(* SHA-256 digests of the model's keys, as hashlib computes them.  The     *)
(* hash itself is not modelled: these are its values.                      *)
(***************************************************************************)
\* hashlib.sha256(b"cuckoo1" + key_bytes).digest()[:8]
Cuckoo1Digest ==
    28 :> <<207, 232, 133, 24, 64, 68, 21, 117>> @@
    240 :> <<74, 233, 101, 227, 105, 88, 153, 165>> @@
    108 :> <<137, 80, 163, 16, 148, 97, 14, 177>> @@
    122 :> <<69, 206, 236, 186, 31, 8, 44, 233>> @@
    129 :> <<85, 228, 67, 6, 200, 178, 144, 140>> @@
    10 :> <<12, 151, 175, 228, 16, 112, 98, 178>> @@
    61 :> <<212, 213, 78, 28, 34, 219, 10, 224>> @@
    97 :> <<52, 39, 33, 84, 172, 137, 70, 40>> @@
    201 :> <<192, 127, 9, 50, 44, 34, 209, 216>> @@
    202 :> <<109, 121, 191, 147, 213, 103, 104, 205>> @@
    203 :> <<169, 189, 88, 85, 194, 251, 135, 158>> @@
    204 :> <<133, 134, 222, 212, 190, 11, 180, 214>> @@
    205 :> <<99, 168, 128, 64, 226, 58, 239, 220>> @@
    207 :> <<54, 88, 160, 175, 92, 187, 203, 76>> @@
    208 :> <<35, 47, 35, 124, 68, 14, 115, 130>> @@
    210 :> <<38, 187, 28, 166, 210, 74, 44, 142>> @@
    212 :> <<131, 215, 219, 163, 169, 169, 232, 43>> @@
    213 :> <<65, 131, 111, 112, 13, 228, 86, 183>> @@
    217 :> <<114, 81, 51, 65, 4, 162, 8, 97>> @@
    218 :> <<50, 161, 65, 76, 6, 211, 213, 16>> @@
    220 :> <<24, 219, 112, 118, 30, 60, 160, 21>> @@
    221 :> <<225, 203, 209, 106, 192, 130, 219, 137>> @@
    226 :> <<167, 46, 167, 19, 185, 46, 189, 71>> @@
    237 :> <<122, 4, 226, 105, 117, 161, 95, 4>> @@
    239 :> <<97, 120, 124, 134, 234, 197, 175, 159>>

\* hashlib.sha256(b"cuckoo2" + key_bytes).digest()[8:16]
Cuckoo2Digest ==
    28 :> <<14, 100, 216, 202, 210, 230, 203, 101>> @@
    240 :> <<186, 16, 117, 14, 194, 19, 247, 229>> @@
    108 :> <<241, 74, 6, 177, 83, 88, 138, 46>> @@
    122 :> <<239, 90, 74, 225, 195, 51, 115, 156>> @@
    129 :> <<201, 102, 22, 72, 78, 25, 143, 1>> @@
    10 :> <<23, 240, 31, 81, 121, 9, 80, 36>> @@
    61 :> <<238, 104, 82, 95, 105, 53, 247, 128>> @@
    97 :> <<162, 154, 153, 116, 227, 150, 230, 168>> @@
    201 :> <<148, 197, 208, 238, 62, 39, 46, 98>> @@
    202 :> <<32, 9, 135, 68, 177, 246, 151, 53>> @@
    203 :> <<146, 92, 68, 74, 79, 224, 85, 101>> @@
    204 :> <<176, 180, 149, 103, 36, 82, 63, 171>> @@
    205 :> <<15, 244, 208, 219, 240, 167, 0, 185>> @@
    207 :> <<189, 139, 151, 106, 58, 224, 99, 40>> @@
    208 :> <<57, 45, 104, 31, 96, 179, 188, 57>> @@
    210 :> <<160, 0, 182, 213, 88, 187, 234, 217>> @@
    212 :> <<140, 225, 243, 13, 60, 37, 128, 225>> @@
    213 :> <<159, 238, 210, 55, 156, 95, 91, 167>> @@
    217 :> <<82, 202, 73, 147, 42, 168, 61, 233>> @@
    218 :> <<75, 60, 94, 18, 237, 122, 89, 63>> @@
    220 :> <<74, 133, 93, 203, 147, 231, 41, 155>> @@
    221 :> <<54, 132, 203, 226, 158, 182, 98, 168>> @@
    226 :> <<75, 32, 138, 19, 21, 96, 143, 39>> @@
    237 :> <<182, 54, 242, 213, 154, 200, 251, 127>> @@
    239 :> <<155, 196, 136, 3, 43, 228, 6, 17>>

\* hashlib.sha256(b"bf1" + key_bytes).digest()
Bf1Digest ==
    108 :> <<204, 210, 249, 197, 199, 199, 47, 115, 255, 157, 12, 114, 223, 77, 28, 221, 119, 45, 37, 103, 72, 83, 183, 129, 218, 91, 190, 235, 252, 98, 72, 136>> @@
    122 :> <<219, 161, 54, 223, 84, 211, 166, 56, 86, 175, 228, 167, 77, 144, 167, 118, 41, 46, 156, 12, 167, 58, 121, 228, 51, 125, 184, 20, 93, 43, 78, 89>> @@
    129 :> <<239, 66, 79, 114, 187, 125, 140, 115, 154, 115, 218, 129, 60, 227, 226, 24, 27, 209, 14, 64, 230, 144, 218, 87, 225, 14, 213, 48, 106, 56, 223, 201>> @@
    201 :> <<42, 230, 123, 64, 66, 192, 219, 125, 20, 252, 0, 110, 122, 249, 223, 247, 54, 95, 134, 128, 122, 180, 96, 95, 149, 162, 32, 64, 0, 223, 28, 150>> @@
    202 :> <<26, 212, 25, 71, 16, 68, 16, 45, 185, 195, 251, 248, 155, 170, 215, 11, 72, 209, 5, 196, 141, 221, 205, 57, 100, 1, 31, 36, 248, 1, 139, 133>> @@
    203 :> <<58, 80, 23, 79, 139, 143, 49, 39, 163, 190, 194, 7, 148, 42, 224, 67, 18, 112, 105, 144, 30, 201, 184, 140, 125, 81, 206, 59, 31, 249, 204, 91>> @@
    204 :> <<195, 163, 32, 23, 101, 58, 16, 171, 119, 26, 246, 24, 85, 63, 152, 251, 44, 218, 89, 131, 222, 212, 0, 203, 60, 75, 220, 36, 118, 242, 84, 22>> @@
    205 :> <<41, 55, 193, 141, 202, 38, 148, 208, 127, 125, 193, 180, 140, 55, 239, 62, 130, 7, 100, 97, 2, 26, 207, 181, 110, 89, 0, 106, 54, 155, 136, 248>> @@
    207 :> <<44, 160, 230, 53, 113, 226, 59, 208, 252, 146, 9, 199, 207, 204, 147, 203, 189, 10, 70, 176, 78, 190, 193, 20, 182, 236, 195, 85, 202, 86, 142, 124>> @@
    208 :> <<50, 136, 178, 195, 94, 122, 93, 114, 220, 62, 107, 184, 141, 102, 88, 85, 90, 154, 61, 45, 73, 66, 152, 115, 209, 218, 188, 68, 225, 19, 100, 121>> @@
    210 :> <<198, 185, 180, 190, 209, 234, 167, 39, 15, 214, 47, 26, 94, 12, 150, 14, 162, 21, 12, 115, 139, 13, 213, 157, 137, 50, 0, 216, 20, 232, 248, 251>> @@
    212 :> <<70, 83, 121, 253, 99, 194, 77, 240, 230, 21, 248, 128, 192, 245, 184, 109, 243, 138, 40, 197, 126, 181, 129, 119, 191, 64, 94, 37, 115, 37, 200, 47>> @@
    213 :> <<29, 100, 152, 98, 119, 80, 176, 107, 69, 88, 199, 195, 226, 102, 81, 20, 250, 140, 114, 148, 199, 41, 160, 169, 2, 10, 13, 204, 185, 127, 225, 146>> @@
    217 :> <<231, 228, 5, 133, 81, 75, 96, 65, 122, 51, 114, 22, 194, 175, 171, 78, 47, 135, 240, 251, 128, 136, 168, 191, 102, 187, 155, 146, 60, 175, 159, 204>> @@
    218 :> <<143, 160, 128, 225, 116, 158, 178, 58, 95, 198, 191, 127, 211, 188, 168, 153, 149, 15, 103, 55, 111, 142, 144, 140, 204, 89, 41, 46, 231, 203, 165, 242>> @@
    220 :> <<68, 52, 46, 182, 253, 180, 140, 90, 217, 162, 129, 81, 104, 136, 70, 162, 168, 103, 253, 249, 61, 81, 154, 127, 66, 81, 247, 235, 149, 68, 79, 233>> @@
    221 :> <<135, 59, 110, 157, 244, 165, 61, 84, 61, 201, 189, 218, 85, 176, 248, 139, 96, 211, 225, 23, 77, 203, 21, 62, 209, 172, 157, 152, 40, 69, 141, 78>> @@
    226 :> <<218, 32, 33, 40, 121, 185, 116, 71, 115, 30, 92, 111, 140, 126, 89, 34, 89, 85, 41, 254, 146, 156, 62, 190, 236, 73, 158, 18, 114, 63, 218, 140>> @@
    237 :> <<155, 210, 112, 42, 122, 242, 12, 147, 96, 138, 205, 109, 87, 234, 184, 38, 95, 49, 235, 30, 184, 148, 26, 191, 23, 132, 9, 198, 235, 18, 201, 155>> @@
    239 :> <<138, 240, 78, 81, 65, 211, 130, 15, 196, 135, 116, 253, 234, 133, 79, 17, 75, 200, 195, 106, 82, 47, 201, 5, 11, 172, 18, 33, 134, 245, 85, 179>>

\* hashlib.sha256(b"bf2" + key_bytes).digest()
Bf2Digest ==
    108 :> <<139, 62, 59, 45, 115, 143, 189, 56, 116, 77, 217, 4, 120, 15, 149, 237, 109, 215, 174, 0, 41, 95, 52, 0, 79, 74, 197, 202, 162, 217, 31, 155>> @@
    122 :> <<130, 64, 132, 64, 101, 65, 135, 34, 56, 172, 186, 167, 140, 246, 89, 229, 116, 158, 216, 177, 18, 235, 89, 77, 216, 77, 177, 9, 52, 22, 158, 245>> @@
    129 :> <<115, 119, 123, 177, 154, 207, 35, 144, 30, 149, 5, 203, 127, 198, 119, 81, 116, 138, 5, 194, 226, 168, 85, 22, 191, 39, 59, 131, 99, 69, 123, 210>> @@
    201 :> <<11, 95, 214, 82, 238, 189, 225, 103, 61, 77, 89, 30, 79, 156, 172, 108, 158, 222, 184, 95, 74, 20, 159, 39, 45, 223, 223, 162, 114, 169, 197, 26>> @@
    202 :> <<172, 155, 44, 194, 195, 64, 212, 153, 114, 208, 9, 123, 26, 31, 120, 70, 165, 100, 144, 125, 126, 245, 205, 39, 108, 248, 192, 2, 175, 171, 239, 210>> @@
    203 :> <<193, 70, 55, 68, 117, 156, 128, 212, 152, 103, 217, 209, 136, 188, 204, 221, 183, 146, 34, 161, 225, 147, 187, 32, 242, 217, 117, 125, 21, 147, 6, 45>> @@
    204 :> <<30, 153, 13, 45, 118, 30, 4, 213, 169, 149, 226, 116, 146, 136, 137, 22, 210, 191, 56, 246, 119, 44, 69, 126, 31, 38, 195, 150, 242, 177, 97, 40>> @@
    205 :> <<234, 113, 33, 157, 85, 21, 15, 99, 161, 157, 92, 179, 42, 106, 212, 192, 39, 106, 158, 30, 152, 25, 47, 111, 232, 140, 173, 212, 171, 182, 200, 140>> @@
    207 :> <<85, 108, 222, 27, 17, 15, 249, 229, 202, 207, 145, 135, 148, 249, 236, 0, 137, 252, 238, 237, 222, 163, 236, 41, 36, 94, 225, 234, 116, 30, 98, 96>> @@
    208 :> <<229, 183, 48, 15, 46, 128, 160, 186, 102, 253, 237, 199, 126, 244, 46, 109, 232, 180, 152, 52, 66, 147, 37, 129, 223, 39, 45, 241, 251, 194, 72, 32>> @@
    210 :> <<49, 188, 249, 222, 3, 26, 68, 211, 227, 171, 172, 98, 5, 212, 2, 158, 188, 229, 182, 76, 210, 46, 243, 153, 37, 197, 83, 100, 145, 18, 53, 197>> @@
    212 :> <<63, 48, 33, 75, 167, 177, 47, 208, 98, 2, 51, 93, 242, 230, 177, 208, 185, 242, 228, 59, 189, 119, 182, 41, 193, 246, 37, 170, 161, 226, 201, 150>> @@
    213 :> <<218, 29, 71, 60, 246, 71, 105, 63, 78, 159, 102, 112, 63, 188, 110, 9, 123, 50, 10, 25, 192, 79, 121, 249, 225, 112, 245, 115, 168, 77, 27, 82>> @@
    217 :> <<153, 97, 121, 11, 43, 60, 2, 229, 37, 174, 248, 227, 98, 234, 70, 252, 172, 180, 13, 226, 183, 56, 57, 0, 138, 148, 71, 143, 130, 63, 93, 17>> @@
    218 :> <<102, 234, 65, 73, 209, 91, 101, 58, 248, 190, 55, 212, 57, 234, 99, 109, 70, 138, 97, 125, 227, 120, 205, 166, 131, 2, 62, 123, 178, 72, 149, 109>> @@
    220 :> <<65, 200, 32, 6, 162, 174, 247, 46, 0, 183, 208, 93, 199, 139, 198, 171, 7, 199, 141, 196, 53, 85, 12, 13, 59, 58, 181, 105, 136, 170, 132, 0>> @@
    221 :> <<244, 105, 231, 42, 87, 110, 214, 216, 55, 205, 171, 48, 62, 59, 155, 45, 207, 25, 74, 224, 7, 114, 193, 108, 6, 78, 112, 128, 39, 215, 155, 225>> @@
    226 :> <<148, 53, 169, 195, 215, 12, 130, 171, 195, 179, 170, 183, 239, 87, 209, 189, 78, 167, 27, 77, 171, 205, 214, 222, 44, 129, 203, 29, 207, 26, 198, 218>> @@
    237 :> <<240, 150, 144, 79, 203, 32, 113, 238, 29, 144, 5, 100, 207, 96, 17, 58, 213, 124, 24, 98, 13, 169, 139, 18, 216, 48, 131, 93, 34, 228, 165, 116>> @@
    239 :> <<155, 230, 152, 184, 237, 76, 61, 160, 101, 168, 147, 129, 96, 154, 80, 201, 165, 98, 248, 124, 149, 68, 241, 208, 250, 252, 190, 167, 20, 190, 231, 105>>

(***************************************************************************)
(* Integer helpers.                                                        *)
(***************************************************************************)
Max(a, b) == IF a >= b THEN a ELSE b

RECURSIVE Pow2(_)
Pow2(i) == IF i = 0 THEN 1 ELSE 2 * Pow2(i - 1)

\* a | b on naturals.
RECURSIVE BitOr(_, _)
BitOr(a, b) ==
    IF a = 0 THEN b
    ELSE IF b = 0 THEN a
    ELSE Max(a % 2, b % 2) + 2 * BitOr(a \div 2, b \div 2)

\* a & b on naturals.
RECURSIVE BitAnd(_, _)
BitAnd(a, b) ==
    IF a = 0 \/ b = 0 THEN 0
    ELSE (IF a % 2 = 1 /\ b % 2 = 1 THEN 1 ELSE 0) + 2 * BitAnd(a \div 2, b \div 2)

\* int.from_bytes(bytes, "big") % n, digit by digit: the value itself has
\* up to 256 bits, its residue is all the code uses.
RECURSIVE FromBytesMod(_, _)
FromBytesMod(bytes, n) ==
    IF bytes = <<>> THEN 0
    ELSE (FromBytesMod(SubSeq(bytes, 1, Len(bytes) - 1), n) * ByteBase
          + bytes[Len(bytes)]) % n

(***************************************************************************)
(* BloomFilter (core/bloom/bloom_filter.py).  A filter object is the       *)
(* record [m, k, bits, inserted]; bits is the bytearray, a sequence of     *)
(* (m + 7) // 8 bytes (index 0 of the code is index 1 here).               *)
(***************************************************************************)
BloomFilterNew(m_bits, k_hash) ==
    [m |-> m_bits, k |-> k_hash,
     bits |-> [i \in 1..((m_bits + 7) \div BitsPerByte) |-> 0],
     inserted |-> 0]

\* h1 % m and h2 % m of _positions, for every m of the model.
BfH1Mod == [key \in Keys \cup ManyKeys |-> [m \in 1..(2 * MaxBloomBits) |-> FromBytesMod(Bf1Digest[key], m)]]
BfH2Mod == [key \in Keys \cup ManyKeys |-> [m \in 1..(2 * MaxBloomBits) |-> FromBytesMod(Bf2Digest[key], m)]]

\* _positions with i in range(1, k + 1): the first position is h1 + h2.
PositionsFromOne(b, key) ==
    [i \in 1..b.k |-> (BfH1Mod[key][b.m] + i * BfH2Mod[key][b.m]) % b.m]

\* _positions: the k positions (h1 + i * h2) % m, i in range(k).
Positions(b, key) ==
    [i \in 1..b.k |-> (BfH1Mod[key][b.m] + (i - 1) * BfH2Mod[key][b.m]) % b.m]

\* SetBit with "=" for "|=": the byte's other bits are lost.
SetBitAssign(bits, pos) ==
    LET byte_index == pos \div BitsPerByte
        bit_index == pos % BitsPerByte
    IN [bits EXCEPT ![byte_index + 1] = Pow2(bit_index)]

\* SetBit with "^=" for "|=": a bit that is already set is cleared.
SetBitToggle(bits, pos) ==
    LET byte_index == pos \div BitsPerByte
        bit_index == pos % BitsPerByte
    IN [bits EXCEPT ![byte_index + 1] =
            BitOr(@, Pow2(bit_index)) - BitAnd(@, Pow2(bit_index))]

\* _set_bit: bits[pos // 8] |= 1 << (pos % 8).
SetBit(bits, pos) ==
    LET byte_index == pos \div BitsPerByte
        bit_index == pos % BitsPerByte
    IN [bits EXCEPT ![byte_index + 1] = BitOr(@, Pow2(bit_index))]

\* _get_bit: (bits[pos // 8] & (1 << (pos % 8))) != 0.
GetBit(bits, pos) ==
    LET byte_index == pos \div BitsPerByte
        bit_index == pos % BitsPerByte
    IN BitAnd(bits[byte_index + 1], Pow2(bit_index)) /= 0

RECURSIVE SetBits(_, _, _)
SetBits(bits, positions, i) ==
    IF i > Len(positions) THEN bits
    ELSE SetBits(SetBit(bits, positions[i]), positions, i + 1)

\* insert: set the k bits, then count the insert.
BloomInsert(b, key) ==
    [b EXCEPT !.bits = SetBits(b.bits, Positions(b, key), 1),
              !.inserted = @ + 1]

\* insert_many: insert each key in turn.
RECURSIVE BloomInsertMany(_, _)
BloomInsertMany(b, keys) ==
    IF keys = <<>> THEN b
    ELSE BloomInsertMany(BloomInsert(b, Head(keys)), Tail(keys))

\* might_contain: all(self._get_bit(pos) for pos in positions).
MightContain(b, key) ==
    LET positions == Positions(b, key)
    IN \A i \in 1..Len(positions) : GetBit(b.bits, positions[i])

\* The largest inserted/m, in millionths, at which (1 - e^(-k n / m))^k is
\* still <= fpr_limit = 0.05, for k = 1..64: -ln(1 - 0.05^(1/k)) / k.
FprLoadLimitPpm ==
    <<51293, 126548, 153167, 160077, 159381, 155641, 150726, 145456,
      140205, 135144, 130344, 125828, 121597, 117639, 113937, 110472,
      107225, 104180, 101318, 98625, 96086, 93689, 91422, 89276,
      87240, 85306, 83467, 81715, 80045, 78450, 76926, 75468,
      74071, 72732, 71447, 70212, 69025, 67883, 66782, 65722,
      64699, 63712, 62759, 61837, 60946, 60083, 59248, 58438,
      57653, 56892, 56154, 55436, 54740, 54063, 53404, 52764,
      52140, 51533, 50942, 50366, 49805, 49258, 48724, 48203>>

\* estimate_fpr() > fpr_limit.  The code compares the float
\* (1 - exp(-k n / m)) ** k with 0.05; that is n / m above the bound of
\* FprLoadLimitPpm[k], and the two agree for every m, k, n of the model
\* (no n / m lies within a millionth of a bound).
FprExceeded(b) ==
    b.inserted * 1000000 > b.m * FprLoadLimitPpm[b.k]

(***************************************************************************)
(* CuckooHashTable (core/cuckoo/cuckoo_table.py).  A table object is the   *)
(* record [table, capacity, size, rehash_count]; table is the slot list    *)
(* (index 0 of the code is index 1 here), a slot holds a ReputationEntry   *)
(* [ip, first_seen, last_seen] or None.  The operators below carry one     *)
(* more field, ok: FALSE once an allocation has raised MemoryError.        *)
(***************************************************************************)
None == [ip |-> -1, first_seen |-> 0, last_seen |-> 0]

ReputationEntry(key, first, lastSeen) ==
    [ip |-> key, first_seen |-> first, last_seen |-> lastSeen]

\* _next_power_of_two that returns n itself.
NextPowerOfTwoIdentity(n) == n

\* _next_power_of_two: n -= 1; n |= n >> 1, 2, 4, 8, 16, 32; return n + 1.
NextPowerOfTwo(n) ==
    LET n0 == n - 1
        n1 == BitOr(n0, n0 \div 2)
        n2 == BitOr(n1, n1 \div 4)
        n3 == BitOr(n2, n2 \div 16)
        n4 == BitOr(n3, n3 \div 256)
        n5 == BitOr(n4, n4 \div 65536)
    IN n5 + 1  \* n >> 32 is 0 for every capacity of the model

\* __init__: capacity rounded up to a power of two, all slots None.
CuckooNew(cap) ==
    LET c == NextPowerOfTwo(cap)
    IN [table |-> [i \in 1..c |-> None], capacity |-> c, size |-> 0,
        rehash_count |-> 0, ok |-> TRUE]

\* _hash1, _hash2: the 8 digest bytes as a big-endian integer, % capacity,
\* tabulated for every capacity of the model.
Hash1Mod == [key \in Keys \cup KickKeys \cup ManyKeys \cup GrowKeys |-> [cap \in 1..(2 * MaxCapacity) \cup ManyCapacities \cup 1..(2 * GrowCapacity) |-> FromBytesMod(Cuckoo1Digest[key], cap)]]
Hash2Mod == [key \in Keys \cup KickKeys \cup ManyKeys \cup GrowKeys |-> [cap \in 1..(2 * MaxCapacity) \cup ManyCapacities \cup 1..(2 * GrowCapacity) |-> FromBytesMod(Cuckoo2Digest[key], cap)]]

Hash1(key, cap) == Hash1Mod[key][cap]
Hash2(key, cap) == Hash2Mod[key][cap]

\* load_factor() >= 0.9 (size / capacity is never exactly 0.9: capacity is
\* a power of two).
LoadAtLimit(T) == T.size * LoadLimitDen >= LoadLimitNum * T.capacity

\* The slot of the code's index pos.
Slot(T, pos) == T.table[pos + 1]

\* get: the entry at pos1 or pos2 whose ip is the key, else None.
Get(T, key) ==
    LET pos1 == Hash1(key, T.capacity)
        pos2 == Hash2(key, T.capacity)
    IN IF Slot(T, pos1) /= None /\ Slot(T, pos1).ip = key THEN Slot(T, pos1)
       ELSE IF Slot(T, pos2) /= None /\ Slot(T, pos2).ip = key THEN Slot(T, pos2)
       ELSE None

\* TryPlace without "self._size += 1".
TryPlaceNoCount(T, pos, entry) ==
    [T EXCEPT !.table[pos + 1] = entry]

\* _try_place: fill an empty slot (size + 1) or overwrite the same key.
TryPlaceOk(T, pos, entry) ==
    Slot(T, pos) = None \/ Slot(T, pos).ip = entry.ip

TryPlace(T, pos, entry) ==
    IF Slot(T, pos) = None
    THEN [T EXCEPT !.table[pos + 1] = entry, !.size = @ + 1]
    ELSE [T EXCEPT !.table[pos + 1] = entry]

\* PlaceIfPresent that writes pos1 whichever candidate holds the key.
PlaceIfPresentFirst(T, key, entry) ==
    [T EXCEPT !.table[Hash1(key, T.capacity) + 1] = entry]

\* _place_if_present: overwrite the key's entry at pos1, else at pos2.
IsPresent(T, key) ==
    LET pos1 == Hash1(key, T.capacity)
        pos2 == Hash2(key, T.capacity)
    IN \/ (Slot(T, pos1) /= None /\ Slot(T, pos1).ip = key)
       \/ (Slot(T, pos2) /= None /\ Slot(T, pos2).ip = key)

PlaceIfPresent(T, key, entry) ==
    LET pos1 == Hash1(key, T.capacity)
        pos2 == Hash2(key, T.capacity)
    IN IF Slot(T, pos1) /= None /\ Slot(T, pos1).ip = key
       THEN [T EXCEPT !.table[pos1 + 1] = entry]
       ELSE [T EXCEPT !.table[pos2 + 1] = entry]

\* [e for e in self._table if e is not None], in slot order.
RECURSIVE EntriesFrom(_, _)
EntriesFrom(table, i) ==
    IF i > Len(table) THEN <<>>
    ELSE IF table[i] = None THEN EntriesFrom(table, i + 1)
    ELSE <<table[i]>> \o EntriesFrom(table, i + 1)

Entries(T) == EntriesFrom(T.table, 1)

RECURSIVE Insert(_, _, _)
RECURSIVE KickLoop(_, _, _, _)
RECURSIVE Rehash(_, _)
RECURSIVE ReinsertAll(_, _)
RECURSIVE KickLoopDropsHomeless(_, _, _, _)

\* KickLoop without the retry after the rehash: the entry left without a
\* slot when the kicks ran out is dropped.
KickLoopDropsHomeless(T, key, new_entry, kick) ==
    IF kick >= MaxKicks
    THEN Rehash(T, T.capacity * 2)
    ELSE LET pos1 == Hash1(key, T.capacity)
             pos2 == Hash2(key, T.capacity)
             pos == IF kick % 2 = 0 THEN pos1 ELSE pos2
         IN IF TryPlaceOk(T, pos1, new_entry) THEN TryPlace(T, pos1, new_entry)
            ELSE IF TryPlaceOk(T, pos2, new_entry) THEN TryPlace(T, pos2, new_entry)
            ELSE KickLoopDropsHomeless([T EXCEPT !.table[pos + 1] = new_entry],
                                       Slot(T, pos).ip, Slot(T, pos), kick + 1)

\* insert: rehash at load >= 0.9, overwrite a present key, else the
\* eviction loop.  The result has ok = TRUE when insert returned True.
Insert(T, key, entry) ==
    LET T1 == IF LoadAtLimit(T) THEN Rehash(T, T.capacity * 2) ELSE T
    IN IF ~T1.ok THEN T1
       ELSE IF IsPresent(T1, key) THEN PlaceIfPresent(T1, key, entry)
       ELSE KickLoop(T1, key, entry, 0)

\* for kick in range(max_kicks): place at pos1 or pos2, else swap with
\* pos1 (even kick) or pos2 (odd kick) and go on with the displaced entry;
\* after max_kicks: _rehash(capacity * 2) and insert(key, new_entry).
KickLoop(T, key, new_entry, kick) ==
    IF kick >= MaxKicks
    THEN LET T1 == Rehash(T, T.capacity * 2)
         IN IF ~T1.ok THEN T1 ELSE Insert(T1, key, new_entry)
    ELSE LET pos1 == Hash1(key, T.capacity)
             pos2 == Hash2(key, T.capacity)
             pos == IF kick % 2 = 0 THEN pos1 ELSE pos2
         IN IF TryPlaceOk(T, pos1, new_entry) THEN TryPlace(T, pos1, new_entry)
            ELSE IF TryPlaceOk(T, pos2, new_entry) THEN TryPlace(T, pos2, new_entry)
            ELSE KickLoop([T EXCEPT !.table[pos + 1] = new_entry],
                          Slot(T, pos).ip, Slot(T, pos), kick + 1)

\* Rehash that keeps every entry at its old index in the larger slot list
\* instead of inserting it again.
RehashCopies(T, new_capacity) ==
    LET nc == NextPowerOfTwo(new_capacity)
    IN IF nc > MaxCapacity \/ nc < T.capacity
       THEN [T EXCEPT !.rehash_count = @ + 1, !.capacity = nc, !.ok = FALSE]
       ELSE [T EXCEPT !.table = [i \in 1..nc |-> IF i <= T.capacity THEN T.table[i] ELSE None],
                      !.capacity = nc, !.rehash_count = @ + 1]

\* _rehash: count it, set the capacity, allocate (MemoryError beyond
\* MaxCapacity slots: the old slot list and size stay), insert the old
\* entries again.
Rehash(T, new_capacity) ==
    LET nc == NextPowerOfTwo(new_capacity)
        old_entries == Entries(T)
    IN IF nc > MaxCapacity
       THEN [T EXCEPT !.rehash_count = @ + 1, !.capacity = nc, !.ok = FALSE]
       ELSE ReinsertAll([table |-> [i \in 1..nc |-> None], capacity |-> nc,
                         size |-> 0, rehash_count |-> T.rehash_count + 1,
                         ok |-> TRUE],
                        old_entries)

\* for entry in old_entries: self.insert(entry.ip, entry).
ReinsertAll(T, entries) ==
    IF entries = <<>> \/ ~T.ok THEN T
    ELSE ReinsertAll(Insert(T, Head(entries).ip, Head(entries)), Tail(entries))

\* Remove that looks at pos1 only.
RemoveFirstOnly(T, key) ==
    LET pos1 == Hash1(key, T.capacity)
    IN IF Slot(T, pos1) /= None /\ Slot(T, pos1).ip = key
       THEN [T EXCEPT !.table[pos1 + 1] = None, !.size = @ - 1]
       ELSE T

\* remove: clear the key's slot at pos1, else at pos2; size - 1.
RemoveReturns(T, key) == IsPresent(T, key)

Remove(T, key) ==
    LET pos1 == Hash1(key, T.capacity)
        pos2 == Hash2(key, T.capacity)
    IN IF Slot(T, pos1) /= None /\ Slot(T, pos1).ip = key
       THEN [T EXCEPT !.table[pos1 + 1] = None, !.size = @ - 1]
       ELSE IF Slot(T, pos2) /= None /\ Slot(T, pos2).ip = key
       THEN [T EXCEPT !.table[pos2 + 1] = None, !.size = @ - 1]
       ELSE T

\* maybe_rehash(load_limit, growth_factor), load_limit = num / den > 0:
\* rehash to max(1, int(capacity * growth_factor)) unless
\* load_factor < load_limit.
MaybeRehashDue(T, num, den) == ~(T.size * den < num * T.capacity)

MaybeRehash(T, num, den, growth_factor) ==
    IF ~MaybeRehashDue(T, num, den) THEN T
    ELSE Rehash(T, Max(1, T.capacity * growth_factor))

(***************************************************************************)
(* ReputationManager (core/manager/reputation_manager.py): the pure parts. *)
(***************************************************************************)
\* _rebuild_bloom: m_req = ceil(-active * ln(fpr_limit) / ln(2)^2), with
\* -ln(0.05) / ln(2)^2 = 6.235224...; active * 6.235224 is never integral.
MReq(active) == (active * 6235224) \div 1000000 + 1

\* new_k = max(1, int(round((new_m / active) * ln 2))), ln 2 = 0.693147...
NewK(new_m, active) ==
    Max(1, (2 * new_m * 693147 + active * 1000000) \div (2 * active * 1000000))

\* active = max(1, len(self.cuckoo)).
Active(T) == Max(1, T.size)

\* NewMOf without the doubling: new_m = m_req.
NewMOfRequired(current_m, active) == MReq(active)

\* new_m = max(current_m * 2, m_req, current_m + 1).
NewMOf(current_m, active) == Max(Max(current_m * 2, MReq(active)), current_m + 1)

NewM(b, T) == NewMOf(b.m, Active(T))

\* The keys the rebuild inserts: entry.ip of the snapshot, in slot order.
RECURSIVE IpsOf(_)
IpsOf(entries) ==
    IF entries = <<>> THEN <<>> ELSE <<Head(entries).ip>> \o IpsOf(Tail(entries))

\* RebuildBloom without insert_many: the new filter is installed empty.
RebuildBloomEmpty(b, T) ==
    BloomFilterNew(NewM(b, T), NewK(NewM(b, T), Active(T)))

\* RebuildBloom that inserts every key of the table twice.
RebuildBloomTwice(b, T) ==
    LET new_m == NewM(b, T)
        new_k == NewK(new_m, Active(T))
    IN BloomInsertMany(BloomFilterNew(new_m, new_k),
                       IpsOf(Entries(T)) \o IpsOf(Entries(T)))

\* _rebuild_bloom: the new filter, sized from the live entry count and
\* filled with every key of the table.
RebuildBloom(b, T) ==
    LET new_m == NewM(b, T)
        new_k == NewK(new_m, Active(T))
    IN BloomInsertMany(BloomFilterNew(new_m, new_k), IpsOf(Entries(T)))

\* The event _rebuild_bloom logs (time and the float estimate left out).
RebuildEvent(b, T) ==
    [active |-> Active(T), m_bits |-> NewM(b, T),
     k_hash |-> NewK(NewM(b, T), Active(T)), prev_m_bits |-> b.m,
     m_req |-> MReq(Active(T))]

\* FastCheckResult without the Cuckoo lookup: a Bloom hit is MALICIOUS.
FastCheckResultBloomOnly(b, T, key) ==
    IF ~MightContain(b, key) THEN "CLEAN" ELSE "MALICIOUS"

\* FastCheckResult with the test of the Cuckoo lookup inverted.
FastCheckResultInverted(b, T, key) ==
    IF ~MightContain(b, key) THEN "CLEAN"
    ELSE IF Get(T, key) = None THEN "MALICIOUS"
    ELSE "BLOOM_FALSE_POSITIVE"

\* fast_check: CLEAN on a Bloom miss, else MALICIOUS or
\* BLOOM_FALSE_POSITIVE by the Cuckoo lookup.
FastCheckResult(b, T, key) ==
    IF ~MightContain(b, key) THEN "CLEAN"
    ELSE IF Get(T, key) /= None THEN "MALICIOUS"
    ELSE "BLOOM_FALSE_POSITIVE"

\* RecordFastCheck that counts the lookup as an insertion as well.
RecordFastCheckAsInsertion(me, in_bloom, hit) ==
    [me EXCEPT !.bloom_checks = @ + 1,
               !.bloom_hits = IF in_bloom THEN @ + 1 ELSE @,
               !.bloom_misses = IF in_bloom THEN @ ELSE @ + 1,
               !.cuckoo_hits = IF in_bloom /\ hit THEN @ + 1 ELSE @,
               !.cuckoo_misses = IF in_bloom /\ ~hit THEN @ + 1 ELSE @,
               !.lookup_count = @ + 1,
               !.insertions = @ + 1]

\* Metrics.record_bloom_check, record_cuckoo_hit, record_lookup_latency as
\* fast_check calls them (the latency total, a clock reading, is left out).
RecordFastCheck(me, in_bloom, hit) ==
    [me EXCEPT !.bloom_checks = @ + 1,
               !.bloom_hits = IF in_bloom THEN @ + 1 ELSE @,
               !.bloom_misses = IF in_bloom THEN @ ELSE @ + 1,
               !.cuckoo_hits = IF in_bloom /\ hit THEN @ + 1 ELSE @,
               !.cuckoo_misses = IF in_bloom /\ ~hit THEN @ + 1 ELSE @,
               !.lookup_count = @ + 1]

\* TouchLastSeen without max: last_seen = timestamp.
TouchLastSeenAssign(T, key, timestamp) ==
    LET pos1 == Hash1(key, T.capacity)
        pos2 == Hash2(key, T.capacity)
        pos == IF Slot(T, pos1) /= None /\ Slot(T, pos1).ip = key THEN pos1 ELSE pos2
    IN [T EXCEPT !.table[pos + 1].last_seen = timestamp]

\* entry.last_seen = max(entry.last_seen, timestamp), on the entry get found.
TouchLastSeen(T, key, timestamp) ==
    LET pos1 == Hash1(key, T.capacity)
        pos2 == Hash2(key, T.capacity)
        pos == IF Slot(T, pos1) /= None /\ Slot(T, pos1).ip = key THEN pos1 ELSE pos2
    IN [T EXCEPT !.table[pos + 1].last_seen = Max(@, timestamp)]

(***************************************************************************)
(* State.                                                                  *)
(***************************************************************************)
VARIABLES
    cuckoo,     \* the CuckooHashTable: [table, capacity, size, rehash_count]
                \* (SpecLegacy: the CuckooFilter; SpecConfig: the tables created)
    bloom,      \* the filter self.bloom refers to: [m, k, bits, inserted]
                \* (SpecLegacy, SpecSimple: that filter; SpecConfig: the filters created)
    mgr,        \* ReputationManager counters and the rebuild event log
                \* (SpecLegacy: settings and stats; SpecSimple: the hash seed)
    metrics,    \* the Metrics counters
    raised,     \* an exception left a call: the caller has stopped
    result,     \* the CheckResult the last fast_check returned ("None": none yet)
    status,     \* per key: "unknown", "tracked" (reported), "removed"
    bfKeys,     \* the keys inserted into the filter object of bloom
    pc,         \* SpecConc: where each thread stands in its call
    loc,        \* SpecConc: each thread's local variables
    retired,    \* SpecConc: replaced filter objects threads still hold
    last,       \* SpecTable: the last call, [op, capacity before it]
                \* (SpecConfig, SpecLegacy, SpecSimple: the last call and its arguments)
    calls       \* SpecConc: the calls started, per operation
                \* (SpecLegacy: the calls made; SpecSimple: items added and probed)

vars == <<cuckoo, bloom, mgr, metrics, raised, result, status, bfKeys, pc, loc,
          retired, last, calls>>

\* The table object without and with the ok field of the operators.
Tbl(c) == [table |-> c.table, capacity |-> c.capacity, size |-> c.size,
           rehash_count |-> c.rehash_count, ok |-> TRUE]

Obj(T) == [table |-> T.table, capacity |-> T.capacity, size |-> T.size,
           rehash_count |-> T.rehash_count]

\* No call yet.
NoCall == [op |-> "none", capacity |-> 0]

\* No filter loaded.
NoRef == -1

\* The filter objects: bloom is generation gen, objs holds the replaced
\* generations some thread still has a reference to.
NoRetired == [gen |-> 0, objs |-> <<>>]

NoCalls == [report |-> 0, fast_check |-> 0, maybe_rescale |-> 0]

\* A thread's locals: the call and its arguments, the filter reference it
\* loaded, the values it read, the counters it still has to add 1 to and
\* where it goes on after them.  began is the set of keys whose report had
\* returned when the thread's _rebuild_bloom began.
NoLocals == [op |-> "idle", key |-> 0, ts |-> 0, ref |-> NoRef, orphan |-> FALSE,
             after |-> FALSE, active |-> 0, cur_m |-> 0, snapshot |-> <<>>,
             tmp |-> 0, incs |-> <<>>, next |-> "idle", result |-> "None",
             began |-> {}]

\* Metrics(): every counter 0.
MetricsNew ==
    [bloom_checks |-> 0, bloom_misses |-> 0, bloom_hits |-> 0,
     cuckoo_hits |-> 0, cuckoo_misses |-> 0, evictions |-> 0,
     insertions |-> 0, lookup_count |-> 0]

\* ReputationManager.__init__ over a fresh filter and a fresh table.
Init ==
    /\ \E cap \in ManagerCapacities : cuckoo = Obj(CuckooNew(cap))
    /\ \E p \in InitBloomParams : bloom = BloomFilterNew(p[1], p[2])
    /\ mgr = [bloom_rebuilds |-> 0, cuckoo_rescale_no |-> 1,
              bloom_rescale_no |-> 1, bloom_rebuild_events |-> <<>>]
    /\ metrics = MetricsNew
    /\ raised = FALSE
    /\ result = "None"
    /\ status = [k \in Keys |-> "unknown"]
    /\ bfKeys = {}
    /\ pc = [t \in Threads |-> "idle"]
    /\ loc = [t \in Threads |-> NoLocals]
    /\ retired = NoRetired
    /\ last = NoCall
    /\ calls = NoCalls

(***************************************************************************)
(* Spec: one caller, one call at a time.                                   *)
(***************************************************************************)
\* ReportMaliciousIp with bloom.insert ahead of cuckoo.insert: the filter
\* has the key's bits also when insert raises.
ReportMaliciousIpBloomFirst(key, timestamp) ==
    /\ ~raised
    /\ IF Get(Tbl(cuckoo), key) /= None
       THEN /\ cuckoo' = Obj(TouchLastSeen(Tbl(cuckoo), key, timestamp))
            /\ UNCHANGED <<bloom, metrics, raised, status, bfKeys>>
       ELSE /\ metrics.insertions < MaxInsertions
            /\ LET T == Insert(Tbl(cuckoo), key, ReputationEntry(key, timestamp, timestamp))
               IN /\ cuckoo' = Obj(T)
                  /\ bloom' = BloomInsert(bloom, key)
                  /\ bfKeys' = bfKeys \cup {key}
                  /\ IF T.ok
                     THEN /\ metrics' = [metrics EXCEPT !.insertions = @ + 1]
                          /\ status' = [status EXCEPT ![key] = "tracked"]
                          /\ UNCHANGED raised
                     ELSE /\ raised' = TRUE
                          /\ UNCHANGED <<metrics, status>>
    /\ UNCHANGED <<mgr, result, pc, loc, retired, last, calls>>

\* report_malicious_ip(ip, timestamp): a tracked key gets its last_seen
\* raised; a new key goes into the Cuckoo table and, once insert has
\* returned True, into the Bloom filter and the insertions metric.  A
\* MemoryError of insert leaves the call before the filter is touched.
ReportMaliciousIp(key, timestamp) ==
    /\ ~raised
    /\ IF Get(Tbl(cuckoo), key) /= None
       THEN /\ cuckoo' = Obj(TouchLastSeen(Tbl(cuckoo), key, timestamp))
            /\ UNCHANGED <<bloom, metrics, raised, status, bfKeys>>
       ELSE /\ metrics.insertions < MaxInsertions
            /\ LET T == Insert(Tbl(cuckoo), key, ReputationEntry(key, timestamp, timestamp))
               IN /\ cuckoo' = Obj(T)
                  /\ IF T.ok
                     THEN /\ bloom' = BloomInsert(bloom, key)
                          /\ metrics' = [metrics EXCEPT !.insertions = @ + 1]
                          /\ status' = [status EXCEPT ![key] = "tracked"]
                          /\ bfKeys' = bfKeys \cup {key}
                          /\ UNCHANGED raised
                     ELSE /\ raised' = TRUE
                          /\ UNCHANGED <<bloom, metrics, status, bfKeys>>
    /\ UNCHANGED <<mgr, result, pc, loc, retired, last, calls>>

\* fast_check(ip).
FastCheck(key) ==
    /\ ~raised
    /\ metrics.bloom_checks < MaxChecks
    /\ metrics' = RecordFastCheck(metrics, MightContain(bloom, key),
                                  Get(Tbl(cuckoo), key) /= None)
    /\ result' = FastCheckResult(bloom, Tbl(cuckoo), key)
    /\ UNCHANGED <<cuckoo, bloom, mgr, raised, status, bfKeys, pc, loc, retired, last, calls>>

\* manager.cuckoo.remove(ip): the Cuckoo table only, the filter is left.
RemoveMalicious(key) ==
    /\ ~raised
    /\ cuckoo' = Obj(Remove(Tbl(cuckoo), key))
    /\ status' = IF RemoveReturns(Tbl(cuckoo), key)
                 THEN [status EXCEPT ![key] = "removed"] ELSE status
    /\ UNCHANGED <<bloom, mgr, metrics, raised, result, bfKeys, pc, loc, retired, last, calls>>

\* maybe_rescale(): maybe_rehash of the table, then a rebuild of the filter
\* from the table when estimate_fpr() > fpr_limit.
MaybeRescale ==
    /\ ~raised
    /\ LET T == MaybeRehash(Tbl(cuckoo), LoadLimitNum, LoadLimitDen, CuckooGrowthFactor)
           did_rehash == MaybeRehashDue(Tbl(cuckoo), LoadLimitNum, LoadLimitDen)
           rebuild == T.ok /\ FprExceeded(bloom)
       IN /\ rebuild => NewM(bloom, T) <= MaxBloomBits
          /\ cuckoo' = Obj(T)
          /\ raised' = ~T.ok
          /\ bloom' = IF rebuild THEN RebuildBloom(bloom, T) ELSE bloom
          /\ bfKeys' = IF rebuild THEN {e.ip : e \in {T.table[i] : i \in 1..Len(T.table)} \ {None}}
                       ELSE bfKeys
          /\ mgr' = [mgr EXCEPT
                       !.cuckoo_rescale_no = IF T.ok /\ did_rehash THEN @ + 1 ELSE @,
                       !.bloom_rescale_no = IF rebuild THEN @ + 1 ELSE @,
                       !.bloom_rebuilds = IF rebuild THEN @ + 1 ELSE @,
                       !.bloom_rebuild_events =
                           IF rebuild THEN Append(@, RebuildEvent(bloom, T)) ELSE @]
    /\ UNCHANGED <<metrics, result, status, pc, loc, retired, last, calls>>

\* maintenance(now): maybe_rescale(), whatever now is.
Maintenance(now) == MaybeRescale

Next ==
    \/ \E key \in Keys, timestamp \in Timestamps : ReportMaliciousIp(key, timestamp)
    \/ \E key \in Keys : FastCheck(key)
    \/ \E key \in Keys : RemoveMalicious(key)
    \/ MaybeRescale
    \/ \E now \in Timestamps : Maintenance(now)

Spec == Init /\ [][Next]_vars

(***************************************************************************)
(* SpecReports: the caller of Spec making no maintenance and no            *)
(* maybe_rescale call.  Nothing runs in the manager but the caller's       *)
(* calls; the caller does not stop before a fast_check it can still make.  *)
(***************************************************************************)
NextReports ==
    \/ \E key \in Keys, timestamp \in Timestamps : ReportMaliciousIp(key, timestamp)
    \/ \E key \in Keys : FastCheck(key)
    \/ \E key \in Keys : RemoveMalicious(key)

SpecReports ==
    Init /\ [][NextReports]_vars /\ WF_vars(\E key \in Keys : FastCheck(key))

(***************************************************************************)
(* SpecTable: one caller driving a CuckooHashTable alone.  status records  *)
(* the keys inserted and not removed ("tracked") and those removed.        *)
(***************************************************************************)
InitTable ==
    /\ \E cap \in TableCapacities : cuckoo = Obj(CuckooNew(cap))
    /\ \E p \in InitBloomParams : bloom = BloomFilterNew(p[1], p[2])
    /\ mgr = [bloom_rebuilds |-> 0, cuckoo_rescale_no |-> 1,
              bloom_rescale_no |-> 1, bloom_rebuild_events |-> <<>>]
    /\ metrics = MetricsNew
    /\ raised = FALSE
    /\ result = "None"
    /\ status = [k \in Keys |-> "unknown"]
    /\ bfKeys = {}
    /\ pc = [t \in Threads |-> "idle"]
    /\ loc = [t \in Threads |-> NoLocals]
    /\ retired = NoRetired
    /\ last = NoCall
    /\ calls = NoCalls

\* table.insert(ip, entry), entry any ReputationEntry of that key.
TableInsert(key, first, lastSeen) ==
    /\ ~raised
    /\ first <= lastSeen
    /\ LET T == Insert(Tbl(cuckoo), key, ReputationEntry(key, first, lastSeen))
       IN /\ cuckoo' = Obj(T)
          /\ raised' = ~T.ok
          /\ status' = IF T.ok THEN [status EXCEPT ![key] = "tracked"] ELSE status
    /\ last' = [op |-> IF IsPresent(Tbl(cuckoo), key) THEN "overwrite" ELSE "insert",
                capacity |-> cuckoo.capacity]
    /\ UNCHANGED <<bloom, mgr, metrics, result, bfKeys, pc, loc, retired, calls>>

\* table.remove(ip).
TableRemove(key) ==
    /\ ~raised
    /\ cuckoo' = Obj(Remove(Tbl(cuckoo), key))
    /\ status' = IF RemoveReturns(Tbl(cuckoo), key)
                 THEN [status EXCEPT ![key] = "removed"] ELSE status
    /\ last' = [op |-> "remove", capacity |-> cuckoo.capacity]
    /\ UNCHANGED <<bloom, mgr, metrics, raised, result, bfKeys, pc, loc, retired, calls>>

\* table.maybe_rehash(0.9, growth_factor).
TableMaybeRehash(growth_factor) ==
    /\ ~raised
    /\ cuckoo.rehash_count < MaxRehashes
    /\ LET T == MaybeRehash(Tbl(cuckoo), LoadLimitNum, LoadLimitDen, growth_factor)
       IN /\ cuckoo' = Obj(T)
          /\ raised' = ~T.ok
    /\ last' = [op |-> "maybe_rehash", capacity |-> cuckoo.capacity]
    /\ UNCHANGED <<bloom, mgr, metrics, result, status, bfKeys, pc, loc, retired, calls>>

NextTable ==
    \/ \E key \in Keys, first \in Timestamps, lastSeen \in Timestamps :
          TableInsert(key, first, lastSeen)
    \/ \E key \in Keys : TableRemove(key)
    \/ \E growth_factor \in GrowthFactors : TableMaybeRehash(growth_factor)

SpecTable == InitTable /\ [][NextTable]_vars

(***************************************************************************)
(* SpecKick: SpecTable's calls on a table of two slots, with the keys of   *)
(* KickKeys: eviction chains that cycle and reach max_kicks.               *)
(***************************************************************************)
InitKick ==
    /\ cuckoo = Obj(CuckooNew(2))
    /\ \E p \in InitBloomParams : bloom = BloomFilterNew(p[1], p[2])
    /\ mgr = [bloom_rebuilds |-> 0, cuckoo_rescale_no |-> 1,
              bloom_rescale_no |-> 1, bloom_rebuild_events |-> <<>>]
    /\ metrics = MetricsNew
    /\ raised = FALSE
    /\ result = "None"
    /\ status = [k \in KickKeys |-> "unknown"]
    /\ bfKeys = {}
    /\ pc = [t \in Threads |-> "idle"]
    /\ loc = [t \in Threads |-> NoLocals]
    /\ retired = NoRetired
    /\ last = NoCall
    /\ calls = NoCalls

NextKick ==
    \/ \E key \in KickKeys, first \in Timestamps, lastSeen \in Timestamps :
          TableInsert(key, first, lastSeen)
    \/ \E key \in KickKeys : TableRemove(key)
    \/ \E growth_factor \in GrowthFactors : TableMaybeRehash(growth_factor)

SpecKick == InitKick /\ [][NextKick]_vars

(***************************************************************************)
(* SpecRescale: one caller's fast_check and maintenance calls on a manager *)
(* that holds the first n keys of ManyKeySeq, each reported once: the      *)
(* state the n report_malicious_ip calls leave, computed with the          *)
(* operators of cuckoo.insert and bloom.insert.                            *)
(***************************************************************************)
InitRescale ==
    \E n \in 0..Len(ManyKeySeq), cap \in ManyCapacities, p \in InitBloomParams,
       timestamp \in Timestamps :
       /\ cuckoo = Obj(ReinsertAll(CuckooNew(cap),
                                   [i \in 1..n |-> ReputationEntry(ManyKeySeq[i], timestamp, timestamp)]))
       /\ bloom = BloomInsertMany(BloomFilterNew(p[1], p[2]), SubSeq(ManyKeySeq, 1, n))
       /\ mgr = [bloom_rebuilds |-> 0, cuckoo_rescale_no |-> 1,
                 bloom_rescale_no |-> 1, bloom_rebuild_events |-> <<>>]
       /\ metrics = [MetricsNew EXCEPT !.insertions = n]
       /\ raised = FALSE
       /\ result = "None"
       /\ status = [k \in ManyKeys |->
                      IF \E i \in 1..n : ManyKeySeq[i] = k THEN "tracked" ELSE "unknown"]
       /\ bfKeys = {ManyKeySeq[i] : i \in 1..n}
       /\ pc = [t \in Threads |-> "idle"]
       /\ loc = [t \in Threads |-> NoLocals]
       /\ retired = NoRetired
       /\ last = NoCall
       /\ calls = NoCalls

NextRescale ==
    \/ \E key \in ManyKeys : FastCheck(key)
    \/ MaybeRescale
    \/ \E now \in Timestamps : Maintenance(now)

SpecRescale == InitRescale /\ [][NextRescale]_vars

(***************************************************************************)
(* SpecBloom: one caller driving a BloomFilter alone.  bfKeys records the  *)
(* keys inserted, result what the last might_contain returned.             *)
(***************************************************************************)
\* m_bits and k_hash arguments of BloomFilter.__init__.
BloomSizes == {1, 5, 8, 12, 16}
BloomHashCounts == {1, 2, 3, 6}

InitBloom ==
    /\ \E m_bits \in BloomSizes, k_hash \in BloomHashCounts :
          bloom = BloomFilterNew(m_bits, k_hash)
    /\ \E cap \in ManagerCapacities : cuckoo = Obj(CuckooNew(cap))
    /\ mgr = [bloom_rebuilds |-> 0, cuckoo_rescale_no |-> 1,
              bloom_rescale_no |-> 1, bloom_rebuild_events |-> <<>>]
    /\ metrics = MetricsNew
    /\ raised = FALSE
    /\ result = "None"
    /\ status = [k \in Keys |-> "unknown"]
    /\ bfKeys = {}
    /\ pc = [t \in Threads |-> "idle"]
    /\ loc = [t \in Threads |-> NoLocals]
    /\ retired = NoRetired
    /\ last = NoCall
    /\ calls = NoCalls

\* bloom.insert(ip).
FilterInsert(key) ==
    /\ bloom.inserted < MaxInsertions
    /\ bloom' = BloomInsert(bloom, key)
    /\ bfKeys' = bfKeys \cup {key}
    /\ UNCHANGED <<cuckoo, mgr, metrics, raised, result, status, pc, loc, retired, last, calls>>

\* bloom.insert_many([key1, key2]).
FilterInsertMany(key1, key2) ==
    /\ bloom.inserted + 2 <= MaxInsertions
    /\ bloom' = BloomInsertMany(bloom, <<key1, key2>>)
    /\ bfKeys' = bfKeys \cup {key1, key2}
    /\ UNCHANGED <<cuckoo, mgr, metrics, raised, result, status, pc, loc, retired, last, calls>>

\* bloom.might_contain(ip).
FilterMightContain(key) ==
    /\ result' = IF MightContain(bloom, key) THEN "True" ELSE "False"
    /\ UNCHANGED <<cuckoo, bloom, mgr, metrics, raised, status, bfKeys, pc, loc, retired, last, calls>>

NextBloom ==
    \/ \E key \in Keys : FilterInsert(key)
    \/ \E key1 \in Keys, key2 \in Keys : FilterInsertMany(key1, key2)
    \/ \E key \in Keys : FilterMightContain(key)

SpecBloom == InitBloom /\ [][NextBloom]_vars

(***************************************************************************)
(* SpecFilter: one caller driving every public method of a BloomFilter:    *)
(* the calls of SpecBloom, estimate_fpr and the getters.  last is the last *)
(* read with the value it returned.                                        *)
(***************************************************************************)
\* bloom.estimate_fpr(): reads m, k and inserted under the lock; above is
\* whether the float it returns exceeds fpr_limit.
FilterEstimateFpr ==
    /\ last' = [op |-> "estimate_fpr", m |-> bloom.m, k |-> bloom.k,
                n |-> bloom.inserted, above |-> FprExceeded(bloom)]
    /\ UNCHANGED <<cuckoo, bloom, mgr, metrics, raised, result, status, bfKeys, pc, loc, retired, calls>>

\* bloom.get_inserted_count().
FilterGetInsertedCount ==
    /\ last' = [op |-> "get_inserted_count", value |-> bloom.inserted]
    /\ UNCHANGED <<cuckoo, bloom, mgr, metrics, raised, result, status, bfKeys, pc, loc, retired, calls>>

\* bloom.m_bits().
FilterMBits ==
    /\ last' = [op |-> "m_bits", value |-> bloom.m]
    /\ UNCHANGED <<cuckoo, bloom, mgr, metrics, raised, result, status, bfKeys, pc, loc, retired, calls>>

\* bloom.k_hash().
FilterKHash ==
    /\ last' = [op |-> "k_hash", value |-> bloom.k]
    /\ UNCHANGED <<cuckoo, bloom, mgr, metrics, raised, result, status, bfKeys, pc, loc, retired, calls>>

NextFilter ==
    \/ \E key \in Keys : FilterInsert(key)
    \/ \E key1 \in Keys, key2 \in Keys : FilterInsertMany(key1, key2)
    \/ \E key \in Keys : FilterMightContain(key)
    \/ FilterEstimateFpr
    \/ FilterGetInsertedCount
    \/ FilterMBits
    \/ FilterKHash

SpecFilter == InitBloom /\ [][NextFilter]_vars

(***************************************************************************)
(* SpecConfig: the constructors, called with valid and invalid arguments.  *)
(* bloom, cuckoo and mgr are the objects created so far (the empty         *)
(* sequence before the first one, else the one created last); last is the  *)
(* last call with its arguments and return value, result is "returned" or  *)
(* "ValueError".  Floats are in millionths.                                *)
(***************************************************************************)
ConfigItems == {-1, 0, 1, 2, 3}
ConfigFprs == {-50000, 0, 50000, 500000, 1000000, 1500000}
ConfigBits == {-1, 0, 8, 12}
ConfigHashCounts == {-1, 0, 1, 6}
ConfigCapacities == {-1, 0, 1, 2, 3}
ConfigGrowthFactors == {0, 1, 2, 3}

\* -ln(target_fpr) / ln(2)^2 in millionths, rounded down, for the valid
\* target_fpr of ConfigFprs.
BitsPerItemPpm(target_fpr) ==
    CASE target_fpr = 50000 -> 6235224
      [] target_fpr = 500000 -> 1442695

\* BloomParams.for_capacity: <<>> when it raises ValueError, else
\* <<m_bits, k_hash>>.  ceil(m) is floor(m) + 1: m is never an integer.
ForCapacity(expected_items, target_fpr) ==
    IF expected_items <= 0 THEN <<>>
    ELSE IF ~(0 < target_fpr /\ target_fpr < 1000000) THEN <<>>
    ELSE LET m_bits == Max(8, (expected_items * BitsPerItemPpm(target_fpr)) \div 1000000 + 1)
         IN <<m_bits, NewK(m_bits, expected_items)>>

InitConfig ==
    /\ cuckoo = <<>>
    /\ bloom = <<>>
    /\ mgr = <<>>
    /\ metrics = MetricsNew
    /\ raised = FALSE
    /\ result = "None"
    /\ status = [k \in Keys |-> "unknown"]
    /\ bfKeys = {}
    /\ pc = [t \in Threads |-> "idle"]
    /\ loc = [t \in Threads |-> NoLocals]
    /\ retired = NoRetired
    /\ last = [op |-> "none", args |-> <<>>, value |-> <<>>]
    /\ calls = NoCalls

\* BloomParams.for_capacity(expected_items, target_fpr).
NewBloomParams(expected_items, target_fpr) ==
    LET params == ForCapacity(expected_items, target_fpr)
    IN /\ last' = [op |-> "for_capacity", args |-> <<expected_items, target_fpr>>,
                   value |-> params]
       /\ result' = IF params = <<>> THEN "ValueError" ELSE "returned"
       /\ UNCHANGED <<cuckoo, bloom, mgr, metrics, raised, status, bfKeys, pc, loc,
                      retired, calls>>

\* BloomFilter(m_bits, k_hash).
NewBloomFilter(m_bits, k_hash) ==
    /\ last' = [op |-> "BloomFilter", args |-> <<m_bits, k_hash>>, value |-> <<>>]
    /\ IF m_bits <= 0 \/ k_hash <= 0
       THEN result' = "ValueError" /\ UNCHANGED bloom
       ELSE result' = "returned" /\ bloom' = <<BloomFilterNew(m_bits, k_hash)>>
    /\ UNCHANGED <<cuckoo, mgr, metrics, raised, status, bfKeys, pc, loc, retired, calls>>

\* CuckooHashTable(capacity).
NewCuckooHashTable(capacity) ==
    /\ last' = [op |-> "CuckooHashTable", args |-> <<capacity>>, value |-> <<>>]
    /\ IF capacity <= 0
       THEN result' = "ValueError" /\ UNCHANGED cuckoo
       ELSE result' = "returned" /\ cuckoo' = <<Obj(CuckooNew(capacity))>>
    /\ UNCHANGED <<bloom, mgr, metrics, raised, status, bfKeys, pc, loc, retired, calls>>

\* ReputationManager(bloom, cuckoo, fpr_limit, cuckoo_growth_factor=...):
\* the arguments are stored as they are.
NewReputationManager(fpr_limit, cuckoo_growth_factor) ==
    /\ bloom /= <<>>
    /\ cuckoo /= <<>>
    /\ last' = [op |-> "ReputationManager", args |-> <<fpr_limit, cuckoo_growth_factor>>,
                value |-> <<>>]
    /\ result' = "returned"
    /\ mgr' = <<[fpr_limit |-> fpr_limit,
                 cuckoo_growth_factor |-> cuckoo_growth_factor,
                 bloom_rebuilds |-> 0, cuckoo_rescale_no |-> 1,
                 bloom_rescale_no |-> 1, bloom_rebuild_events |-> <<>>]>>
    /\ UNCHANGED <<cuckoo, bloom, metrics, raised, status, bfKeys, pc, loc, retired, calls>>

NextConfig ==
    \/ \E expected_items \in ConfigItems, target_fpr \in ConfigFprs :
          NewBloomParams(expected_items, target_fpr)
    \/ \E m_bits \in ConfigBits, k_hash \in ConfigHashCounts : NewBloomFilter(m_bits, k_hash)
    \/ \E capacity \in ConfigCapacities : NewCuckooHashTable(capacity)
    \/ \E fpr_limit \in ConfigFprs, cuckoo_growth_factor \in ConfigGrowthFactors :
          NewReputationManager(fpr_limit, cuckoo_growth_factor)

SpecConfig == InitConfig /\ [][NextConfig]_vars

(***************************************************************************)
(* The earlier manager of src/core: reputation_manager.py over             *)
(* bloom_filter.py and cuckoo_filter.py.  Its filter is the record         *)
(* [expected_items, fpr_target, size, hash_count, bit_array,               *)
(* inserted_count, items], its Cuckoo filter the record [num_buckets,      *)
(* size, items, slots, ok]: slots is the set of occupied slots             *)
(* [bucket, slot, fp, value] of the bucket lists, ok is FALSE once resize  *)
(* has raised RuntimeError.  Both hash with a salt drawn at random by      *)
(* __init__ (secrets.token_bytes, a name reputation_manager.py does not    *)
(* import: the objects are those __init__ builds once the name resolves),  *)
(* so the digest of an ip is any value: LegacySalts enumerates two         *)
(* assignments, one with distinct digests and one where two ips share      *)
(* fingerprint, bucket and filter position.  Probabilities are in          *)
(* millionths, load limits in hundredths.                                  *)
(***************************************************************************)
LegacyIps == {1, 2, 3}
LegacySalts == {1, 2}
LegacyFprLimits == {500000, 900000}
LegacyExpectedItems == {1}
LegacyWarmups == {0, 997}

\* mmh3.hash128(salt + item, seed = 0) and (seed = 42), per salt and ip.
Mmh3Seed0 == <<(1 :> 1 @@ 2 :> 2 @@ 3 :> 3), (1 :> 7 @@ 2 :> 9 @@ 3 :> 11)>>
Mmh3Seed42 == <<(1 :> 5 @@ 2 :> 8 @@ 3 :> 4), (1 :> 6 @@ 2 :> 6 @@ 3 :> 10)>>

\* _fingerprint: the low fingerprint_bits of sha256(salt + key).
Sha256Fingerprint == <<(1 :> 11 @@ 2 :> 22 @@ 3 :> 33), (1 :> 11 @@ 2 :> 11 @@ 3 :> 33)>>

\* int(md5(salt + key).hexdigest(), 16), per salt and key.
Md5Digest == <<(1 :> 100 @@ 2 :> 200 @@ 3 :> 300), (1 :> 100 @@ 2 :> 100 @@ 3 :> 300)>>

RECURSIVE Pow(_, _)
Pow(a, n) == IF n = 0 THEN 1 ELSE a * Pow(a, n - 1)

\* a ^ b on naturals.
RECURSIVE BitXor(_, _)
BitXor(a, b) ==
    IF a = 0 THEN b
    ELSE IF b = 0 THEN a
    ELSE (((a % 2) + (b % 2)) % 2) + 2 * BitXor(a \div 2, b \div 2)

\* -ln(p) / ln(2)^2 in millionths, rounded down, for the p of
\* LegacyFprLimits.
LegacyBitsPerItemPpm(p) ==
    CASE p = 500000 -> 1442695
      [] p = 900000 -> 219294

\* _optimal_size: max(1, int(-(n * ln p) / ln(2)^2)).
OptimalSize(n, p) == Max(1, (n * LegacyBitsPerItemPpm(p)) \div 1000000)

\* _optimal_hash_count: max(1, int((m / n) * ln 2)).
OptimalHashCount(m, n) == Max(1, (m * 693147) \div (n * 1000000))

\* BloomFilter(expected_items, false_positive_rate, salt).
LegacyBloomNew(expected_items, p) ==
    LET size == OptimalSize(expected_items, p)
    IN [expected_items |-> expected_items, fpr_target |-> p, size |-> size,
        hash_count |-> OptimalHashCount(size, expected_items),
        bit_array |-> [i \in 1..size |-> FALSE],
        inserted_count |-> 0, items |-> {}]

\* _hashes: (h1 + i * h2) % size for i in range(hash_count), index 0 of
\* the code being index 1 here.
Hashes(b, salt, item) ==
    {((Mmh3Seed0[salt][item] + i * Mmh3Seed42[salt][item]) % b.size) + 1 :
        i \in 0..(b.hash_count - 1)}

\* add.
LegacyAdd(b, salt, item) ==
    [b EXCEPT !.bit_array = [i \in 1..b.size |->
                                b.bit_array[i] \/ i \in Hashes(b, salt, item)],
              !.inserted_count = @ + 1,
              !.items = @ \cup {item}]

RECURSIVE LegacyAddAll(_, _, _)
LegacyAddAll(b, salt, items) ==
    IF items = {} THEN b
    ELSE LET item == CHOOSE x \in items : TRUE
         IN LegacyAddAll(LegacyAdd(b, salt, item), salt, items \ {item})

\* check.
LegacyCheck(b, salt, item) == \A i \in Hashes(b, salt, item) : b.bit_array[i]

\* estimate_fpr() > limit: (bit_array.count(1) / size) ** hash_count.
BloomFprAbove(b, limit) ==
    /\ b.inserted_count /= 0
    /\ Pow(Cardinality({i \in 1..b.size : b.bit_array[i]}), b.hash_count) * 1000000
          > limit * Pow(b.size, b.hash_count)

\* CuckooFilter(initial_capacity, ...): num_buckets = max(initial_capacity, 1024).
CuckooFilterNew(initial_capacity) ==
    [num_buckets |-> Max(initial_capacity, MinBuckets), size |-> 0, items |-> {},
     slots |-> {}, ok |-> TRUE]

\* _hash.
BucketIndex(c, salt, key) == Md5Digest[salt][key] % c.num_buckets

\* (bucket_idx ^ (fingerprint * 0x5bd1e995)) % num_buckets, the product
\* kept in two limbs of LimbBits bits: bucket_idx is below 2^LimbBits, so
\* the xor changes the low limb only.
AlternateIndexOf(num_buckets, bucket_idx, fingerprint) ==
    LET base == Pow2(LimbBits)
        low_product == fingerprint * (AlternateMultiplier % base)
        high == fingerprint * (AlternateMultiplier \div base) + low_product \div base
    IN ((high % num_buckets) * (base % num_buckets)
        + BitXor(bucket_idx, low_product % base)) % num_buckets

\* _alternate_index.
AlternateIndex(c, bucket_idx, fingerprint) ==
    AlternateIndexOf(c.num_buckets, bucket_idx, fingerprint)

\* load_factor() > limit, limit in hundredths.
LoadFactorAbove(c, limit) == c.size * 100 > limit * c.num_buckets * SlotsPerBucket

\* estimate_fpr() > limit / 10, limit in millionths:
\* 2 * (load / 4) / 2^16 > limit / 10^7, that is
\* size * 312500 > limit * num_buckets * 2^14.
CuckooFprAboveTenth(c, limit) ==
    c.size > 0 /\ (c.size * 312500 - 1) \div (c.num_buckets * Pow2(FingerprintBits - 2)) >= limit

\* _find_in_bucket: the first slot of the bucket holding fp, -1 for None.
FindInBucket(c, bucket_idx, fp) ==
    LET found == {s.slot : s \in {x \in c.slots : x.bucket = bucket_idx /\ x.fp = fp}}
    IN IF found = {} THEN -1 ELSE CHOOSE k \in found : \A j \in found : k <= j

\* The first empty slot of the bucket, -1 when it is full.
FreeSlot(c, bucket_idx) ==
    LET used == {s.slot : s \in {x \in c.slots : x.bucket = bucket_idx}}
        free == (0..(SlotsPerBucket - 1)) \ used
    IN IF free = {} THEN -1 ELSE CHOOSE k \in free : \A j \in free : k <= j

\* _insert_to_bucket, where the bucket has an empty slot.
InsertToBucket(c, bucket_idx, fp, value) ==
    [c EXCEPT !.slots = @ \cup {[bucket |-> bucket_idx, slot |-> FreeSlot(c, bucket_idx),
                                 fp |-> fp, value |-> value]},
              !.size = @ + 1]

\* The slots in the order resize walks them: by bucket, then by slot.
RECURSIVE SlotsInOrder(_)
SlotsInOrder(slots) ==
    IF slots = {} THEN <<>>
    ELSE LET first == CHOOSE s \in slots :
                         \A t \in slots : s.bucket < t.bucket
                                          \/ (s.bucket = t.bucket /\ s.slot <= t.slot)
         IN <<first>> \o SlotsInOrder(slots \ {first})

\* The re-insertion loop of resize: fp % num_buckets, else its alternate,
\* else RuntimeError.
RECURSIVE Reinsert(_, _)
Reinsert(c, old) ==
    IF old = <<>> \/ ~c.ok THEN c
    ELSE LET fp == Head(old).fp
             new_i == fp % c.num_buckets
             new_j == AlternateIndex(c, new_i, fp)
         IN IF FreeSlot(c, new_i) /= -1
            THEN Reinsert(InsertToBucket(c, new_i, fp, Head(old).value), Tail(old))
            ELSE IF FreeSlot(c, new_j) /= -1
            THEN Reinsert(InsertToBucket(c, new_j, fp, Head(old).value), Tail(old))
            ELSE [c EXCEPT !.ok = FALSE]

\* resize, growth_factor = max(2, growth_factor).
CuckooResize(c, growth_factor) ==
    Reinsert([c EXCEPT !.num_buckets = c.num_buckets * Max(2, growth_factor),
                       !.slots = {}, !.size = 0],
             SlotsInOrder(c.slots))

\* lookup(key) is not None.
CuckooLookup(c, salt, key) ==
    LET fp == Sha256Fingerprint[salt][key]
        i == BucketIndex(c, salt, key)
    IN FindInBucket(c, i, fp) /= -1 \/ FindInBucket(c, AlternateIndex(c, i, fp), fp) /= -1

\* insert has room: one of the key's two buckets has an empty slot once the
\* resize of a loaded filter is done (else the eviction walk starts).
CuckooInsertRoom(c0, salt, key, load_limit, growth_factor) ==
    LET c == IF LoadFactorAbove(c0, load_limit) THEN CuckooResize(c0, growth_factor) ELSE c0
        i == BucketIndex(c, salt, key)
    IN c.ok => (FreeSlot(c, i) /= -1
                \/ FreeSlot(c, AlternateIndex(c, i, Sha256Fingerprint[salt][key])) /= -1)

\* insert(key, value) up to the eviction walk.
CuckooInsert(c0, salt, key, value, load_limit, growth_factor) ==
    LET c == IF LoadFactorAbove(c0, load_limit) THEN CuckooResize(c0, growth_factor) ELSE c0
        fp == Sha256Fingerprint[salt][key]
        i == BucketIndex(c, salt, key)
        j == AlternateIndex(c, i, fp)
    IN IF ~c.ok THEN c
       ELSE IF FreeSlot(c, i) /= -1
       THEN [InsertToBucket(c, i, fp, value) EXCEPT !.items = @ \cup {key}]
       ELSE [InsertToBucket(c, j, fp, value) EXCEPT !.items = @ \cup {key}]

\* One round of the eviction loop from the walk w = [done, c, fp, val,
\* bucket] with slot_idx drawn by random.randint: the pair in hand takes
\* the slot; an empty slot ends the walk (size += 1), a victim is carried
\* to its alternate bucket.
EvictRound(w, slot_idx) ==
    LET victim == {s \in w.c.slots : s.bucket = w.bucket /\ s.slot = slot_idx}
        c1 == [w.c EXCEPT !.slots = (@ \ victim) \cup
                              {[bucket |-> w.bucket, slot |-> slot_idx,
                                fp |-> w.fp, value |-> w.val]}]
    IN IF victim = {}
       THEN [done |-> TRUE, c |-> [c1 EXCEPT !.size = @ + 1], fp |-> 0, val |-> 0,
             bucket |-> 0]
       ELSE LET v == CHOOSE s \in victim : TRUE
            IN [done |-> FALSE, c |-> c1, fp |-> v.fp, val |-> v.value,
                bucket |-> AlternateIndex(c1, w.bucket, v.fp)]

\* "for _ in range(1000)": n more rounds from the walks hist[Len(hist)],
\* hist being the sets of walks after each round so far and done the
\* filters of the walks that ended.  The rounds map a set of walks to a set
\* of walks, so once a set comes back the rest of the rounds go round the
\* cycle.  [done, failed]: the filters where the loop returned True, and
\* those it leaves after its last round.
RECURSIVE EvictionWalk(_, _, _)
EvictionWalk(hist, done, n) ==
    LET cur == hist[Len(hist)]
    IN IF n = 0 \/ cur = {} THEN [done |-> done, failed |-> {w.c : w \in cur}]
       ELSE LET out == {EvictRound(w, k) : w \in cur, k \in 0..(SlotsPerBucket - 1)}
                next == {w \in out : ~w.done}
                fin == done \cup {w.c : w \in out \ next}
                seen == {m \in 1..Len(hist) : hist[m] = next}
            IN IF seen = {} THEN EvictionWalk(Append(hist, next), fin, n - 1)
               ELSE LET m == CHOOSE x \in seen : TRUE
                        period == Len(hist) + 1 - m
                    IN [done |-> fin,
                        failed |-> {w.c : w \in hist[m + ((n - 1) % period)]}]

\* insert(key, value), the eviction loop and the resize and retry after it
\* included: the filters the call can leave, ok FALSE where resize raised.
RECURSIVE CuckooInsertAll(_, _, _, _, _, _)
CuckooInsertAll(c0, salt, key, value, load_limit, growth_factor) ==
    IF CuckooInsertRoom(c0, salt, key, load_limit, growth_factor)
    THEN {CuckooInsert(c0, salt, key, value, load_limit, growth_factor)}
    ELSE LET c == IF LoadFactorAbove(c0, load_limit)
                  THEN CuckooResize(c0, growth_factor) ELSE c0
             fp == Sha256Fingerprint[salt][key]
             i == BucketIndex(c, salt, key)
             j == AlternateIndex(c, i, fp)
             \* current_bucket = random.choice([i, j])
             walk == EvictionWalk(<<{[done |-> FALSE, c |-> c, fp |-> fp, val |-> value,
                                      bucket |-> b] : b \in {i, j}}>>,
                                  {}, EvictionLimit)
         IN {[d EXCEPT !.items = @ \cup {key}] : d \in walk.done}
            \cup UNION {LET r == CuckooResize(f, growth_factor)
                        IN IF r.ok
                           THEN CuckooInsertAll(r, salt, key, value, load_limit,
                                                growth_factor)
                           ELSE {r} : f \in walk.failed}

\* delete(key): <<filter, deleted>>.
CuckooDelete(c, salt, key) ==
    LET fp == Sha256Fingerprint[salt][key]
        i == BucketIndex(c, salt, key)
        j == AlternateIndex(c, i, fp)
        bucket_idx == IF FindInBucket(c, i, fp) /= -1 THEN i ELSE j
        slot_idx == FindInBucket(c, bucket_idx, fp)
    IN IF slot_idx = -1 THEN <<c, FALSE>>
       ELSE <<[c EXCEPT !.slots = {s \in @ : ~(s.bucket = bucket_idx /\ s.slot = slot_idx)},
                        !.size = @ - 1,
                        !.items = @ \ {key}], TRUE>>

\* ReputationManager(expected_items, fpr_limit): the manager is the record
\* [bloom, cuckoo, stats, ok] next to its settings.
LegacySettings(fpr_limit, salt) ==
    [fpr_limit |-> fpr_limit, cuckoo_load_limit |-> 95, growth_factor |-> 2, salt |-> salt]

LegacyStatsNew ==
    [total_queries |-> 0, bloom_positive |-> 0, bloom_false_positive |-> 0,
     cuckoo_hit |-> 0, resize_count |-> 0, delete_count |-> 0, op_count |-> 0]

\* maybe_adaptive_resize.
MaybeAdaptiveResize(M, s) ==
    IF /\ ~BloomFprAbove(M.bloom, s.fpr_limit)
       /\ ~LoadFactorAbove(M.cuckoo, s.cuckoo_load_limit)
       /\ ~CuckooFprAboveTenth(M.cuckoo, s.fpr_limit)
    THEN M
    ELSE LET c == CuckooResize(M.cuckoo, s.growth_factor)
             \* int(expected_items * growth_factor * 1.5)
             new_expected == (M.bloom.expected_items * s.growth_factor * 3) \div 2
             new_bloom == LegacyAddAll(LegacyBloomNew(new_expected, s.fpr_limit),
                                       s.salt, c.items)
         IN [bloom |-> IF c.ok THEN new_bloom ELSE M.bloom,
             cuckoo |-> c,
             stats |-> [M.stats EXCEPT !.resize_count = @ + 1],
             ok |-> c.ok]

\* stats["op_count"] += 1, then _auto_adaptive_check.
CountOp(M, s) ==
    LET M1 == [M EXCEPT !.stats.op_count = @ + 1]
    IN IF M1.stats.op_count % CheckInterval = 0 THEN MaybeAdaptiveResize(M1, s) ELSE M1

\* The manager of the state.
LegacyMgr == [bloom |-> bloom, cuckoo |-> cuckoo, stats |-> mgr.stats, ok |-> ~raised]

\* The state after a call that leaves the manager M.
LegacySet(M, op, ip, ret) ==
    /\ bloom' = M.bloom
    /\ cuckoo' = M.cuckoo
    /\ mgr' = [mgr EXCEPT !.stats = M.stats]
    /\ raised' = ~M.ok
    /\ result' = ret
    /\ last' = [op |-> op, ip |-> ip]
    /\ calls' = calls + 1
    /\ UNCHANGED <<metrics, status, bfKeys, pc, loc, retired>>

\* A new manager, then warmup fast_check calls of an ip never inserted:
\* each returns CLEAN and counts one query and one operation.
InitLegacy ==
    /\ \E expected_items \in LegacyExpectedItems, fpr_limit \in LegacyFprLimits,
          salt \in LegacySalts, warmup \in LegacyWarmups :
          /\ bloom = LegacyBloomNew(expected_items * 10, fpr_limit)
          /\ cuckoo = CuckooFilterNew(Max(MinBuckets, expected_items \div 10))
          /\ mgr = [settings |-> LegacySettings(fpr_limit, salt),
                    stats |-> [LegacyStatsNew EXCEPT !.total_queries = warmup,
                                                     !.op_count = warmup]]
    /\ metrics = MetricsNew
    /\ raised = FALSE
    /\ result = "None"
    /\ status = [k \in Keys |-> "unknown"]
    /\ bfKeys = {}
    /\ pc = [t \in Threads |-> "idle"]
    /\ loc = [t \in Threads |-> NoLocals]
    /\ retired = NoRetired
    /\ last = [op |-> "none", ip |-> 0]
    /\ calls = 0

\* insert_malicious(ip), while fewer than cap calls were made.
InsertMaliciousUpTo(ip, cap) ==
    /\ ~raised
    /\ calls < cap
    /\ LET s == mgr.settings
       IN \E c \in CuckooInsertAll(cuckoo, s.salt, ip, ip, s.cuckoo_load_limit,
                                   s.growth_factor) :
             LET M == [LegacyMgr EXCEPT !.bloom = LegacyAdd(bloom, s.salt, ip),
                                        !.cuckoo = c, !.ok = c.ok]
             IN LegacySet(IF c.ok THEN CountOp(M, s) ELSE M, "insert_malicious", ip, "None")

\* insert_malicious(ip).
InsertMalicious(ip) == InsertMaliciousUpTo(ip, MaxLegacyCalls)

\* delete_malicious(ip).
DeleteMalicious(ip) ==
    /\ ~raised
    /\ calls < MaxLegacyCalls
    /\ LET s == mgr.settings
           d == CuckooDelete(cuckoo, s.salt, ip)
       IN IF d[2]
          THEN LegacySet(CountOp([LegacyMgr EXCEPT !.cuckoo = d[1],
                                                   !.stats.delete_count = @ + 1], s),
                         "delete_malicious", ip, "True")
          ELSE LegacySet(LegacyMgr, "delete_malicious", ip, "False")

\* fast_check(ip).
LegacyFastCheck(ip) ==
    /\ ~raised
    /\ calls < MaxLegacyCalls
    /\ LET s == mgr.settings
           M0 == [LegacyMgr EXCEPT !.stats.total_queries = @ + 1]
       IN IF ~LegacyCheck(bloom, s.salt, ip)
          THEN LegacySet(CountOp(M0, s), "fast_check", ip, "CLEAN")
          ELSE IF CuckooLookup(cuckoo, s.salt, ip)
          THEN LegacySet(CountOp([M0 EXCEPT !.stats.bloom_positive = @ + 1,
                                            !.stats.cuckoo_hit = @ + 1], s),
                         "fast_check", ip, "MALICIOUS")
          ELSE LegacySet(CountOp([M0 EXCEPT !.stats.bloom_positive = @ + 1,
                                            !.stats.bloom_false_positive = @ + 1], s),
                         "fast_check", ip, "FP")

NextLegacy ==
    \/ \E ip \in LegacyIps : InsertMalicious(ip)
    \/ \E ip \in LegacyIps : DeleteMalicious(ip)
    \/ \E ip \in LegacyIps : LegacyFastCheck(ip)

SpecLegacy == InitLegacy /\ [][NextLegacy]_vars

(***************************************************************************)
(* The simple BloomFilter of src/src/bloom_filter.py under the run of      *)
(* tests/test_bf.py: 100 items added, then 100 other items probed.  The    *)
(* filter is the record [k, size, bit_array]; calls counts the items       *)
(* added, the items probed and the false positives among them.  hash() of  *)
(* a str depends on the interpreter's hash seed: the run is modelled for   *)
(* two seeds.                                                              *)
(***************************************************************************)
\* PYTHONHASHSEED = 0 and 1.
HashSeeds == {1, 2}

\* hash(f"{item}_{i}") % 623 for i in range(7), per hash seed, for the 100
\* strings of dataset followed by the 100 of test_data (six lowercase
\* letters each, no string in both lists).
SimpleHashMod ==
  <<
    <<
      <<467, 315, 295, 348, 66, 243, 434>>, <<98, 264, 377, 605, 513, 572, 490>>, <<84, 511, 463, 455, 189, 543, 388>>, <<3, 237, 493, 298, 382, 43, 103>>,
      <<32, 318, 216, 246, 93, 0, 59>>, <<28, 370, 72, 349, 300, 274, 24>>, <<191, 121, 242, 403, 592, 352, 543>>, <<308, 462, 600, 44, 442, 211, 518>>,
      <<597, 353, 380, 434, 443, 183, 167>>, <<492, 47, 402, 452, 456, 526, 308>>, <<489, 109, 127, 567, 413, 477, 148>>, <<217, 231, 102, 404, 591, 5, 376>>,
      <<383, 409, 223, 180, 550, 223, 308>>, <<389, 153, 519, 128, 28, 73, 507>>, <<455, 381, 324, 295, 485, 116, 574>>, <<20, 575, 142, 492, 567, 468, 464>>,
      <<550, 368, 282, 619, 605, 252, 493>>, <<251, 2, 230, 130, 457, 392, 265>>, <<367, 62, 306, 482, 165, 76, 149>>, <<324, 290, 211, 394, 273, 482, 547>>,
      <<113, 447, 265, 269, 595, 255, 394>>, <<497, 137, 417, 526, 28, 275, 386>>, <<303, 78, 517, 118, 502, 62, 295>>, <<471, 345, 613, 431, 54, 473, 159>>,
      <<540, 484, 43, 405, 195, 452, 521>>, <<29, 444, 554, 220, 471, 204, 570>>, <<349, 172, 523, 579, 290, 54, 212>>, <<20, 331, 222, 438, 437, 392, 555>>,
      <<436, 46, 101, 373, 331, 599, 393>>, <<384, 220, 123, 29, 99, 379, 293>>, <<145, 193, 590, 221, 211, 28, 233>>, <<88, 309, 417, 150, 116, 37, 601>>,
      <<384, 18, 16, 475, 617, 617, 353>>, <<350, 102, 156, 361, 387, 62, 528>>, <<66, 284, 275, 458, 607, 236, 342>>, <<82, 575, 531, 125, 72, 345, 324>>,
      <<125, 619, 392, 388, 426, 504, 568>>, <<392, 114, 463, 8, 400, 231, 497>>, <<530, 46, 460, 491, 237, 575, 430>>, <<50, 549, 377, 464, 471, 477, 251>>,
      <<610, 237, 101, 191, 10, 401, 612>>, <<160, 94, 153, 71, 531, 152, 172>>, <<16, 107, 307, 75, 415, 252, 340>>, <<167, 544, 247, 396, 16, 111, 51>>,
      <<233, 16, 290, 570, 244, 365, 22>>, <<453, 267, 127, 83, 30, 270, 50>>, <<495, 517, 393, 393, 200, 82, 595>>, <<433, 104, 620, 139, 399, 105, 310>>,
      <<222, 381, 519, 25, 264, 207, 423>>, <<442, 293, 540, 305, 380, 597, 620>>, <<140, 0, 401, 303, 541, 595, 420>>, <<308, 104, 471, 485, 499, 607, 302>>,
      <<372, 472, 355, 115, 524, 355, 358>>, <<538, 535, 560, 277, 187, 412, 300>>, <<576, 507, 287, 389, 335, 589, 549>>, <<126, 436, 412, 550, 333, 188, 565>>,
      <<547, 200, 256, 497, 602, 70, 436>>, <<198, 53, 610, 478, 298, 598, 48>>, <<222, 163, 509, 108, 420, 131, 228>>, <<366, 224, 304, 274, 237, 387, 383>>,
      <<350, 400, 320, 212, 186, 54, 1>>, <<330, 364, 207, 431, 331, 329, 63>>, <<205, 202, 264, 372, 277, 159, 548>>, <<79, 338, 494, 538, 36, 410, 370>>,
      <<619, 599, 201, 502, 358, 220, 132>>, <<119, 576, 148, 254, 322, 598, 486>>, <<474, 154, 182, 430, 149, 241, 221>>, <<425, 400, 107, 141, 272, 571, 505>>,
      <<3, 437, 423, 414, 357, 227, 306>>, <<587, 149, 0, 250, 226, 126, 13>>, <<611, 18, 173, 592, 144, 152, 38>>, <<420, 219, 324, 151, 391, 93, 73>>,
      <<603, 561, 179, 0, 475, 476, 221>>, <<243, 519, 449, 187, 115, 615, 241>>, <<520, 216, 27, 0, 611, 602, 56>>, <<165, 607, 493, 22, 407, 66, 294>>,
      <<198, 176, 230, 237, 57, 366, 46>>, <<176, 210, 68, 257, 433, 175, 161>>, <<194, 129, 118, 392, 112, 414, 516>>, <<350, 289, 107, 193, 273, 564, 198>>,
      <<526, 298, 104, 62, 456, 519, 290>>, <<133, 188, 96, 209, 429, 180, 211>>, <<331, 596, 368, 315, 4, 202, 238>>, <<142, 74, 154, 390, 83, 301, 178>>,
      <<129, 281, 437, 262, 446, 157, 349>>, <<181, 387, 93, 9, 264, 492, 372>>, <<411, 403, 97, 469, 114, 29, 328>>, <<517, 371, 365, 98, 377, 229, 402>>,
      <<569, 498, 23, 127, 84, 133, 372>>, <<327, 542, 456, 10, 31, 529, 178>>, <<128, 311, 303, 208, 593, 109, 461>>, <<189, 142, 115, 577, 514, 434, 453>>,
      <<254, 573, 47, 541, 271, 226, 509>>, <<474, 579, 96, 116, 70, 187, 215>>, <<603, 404, 28, 204, 397, 221, 200>>, <<271, 563, 156, 457, 256, 579, 28>>,
      <<126, 150, 402, 49, 496, 314, 455>>, <<582, 606, 448, 74, 67, 309, 622>>, <<445, 14, 176, 216, 543, 483, 510>>, <<537, 142, 446, 13, 415, 274, 435>>,
      <<617, 511, 339, 98, 84, 132, 548>>, <<470, 363, 308, 281, 587, 408, 90>>, <<95, 335, 427, 516, 617, 596, 210>>, <<480, 156, 552, 329, 355, 142, 45>>,
      <<283, 305, 276, 148, 304, 427, 418>>, <<168, 127, 278, 246, 474, 102, 561>>, <<576, 417, 126, 319, 146, 146, 320>>, <<279, 519, 537, 560, 222, 9, 167>>,
      <<293, 284, 381, 87, 39, 299, 257>>, <<88, 115, 604, 517, 73, 490, 552>>, <<420, 445, 492, 417, 527, 164, 167>>, <<210, 305, 204, 295, 585, 366, 78>>,
      <<239, 395, 542, 310, 480, 502, 503>>, <<454, 179, 457, 31, 350, 459, 563>>, <<154, 603, 198, 366, 62, 494, 254>>, <<193, 425, 597, 376, 385, 463, 198>>,
      <<20, 257, 477, 447, 366, 603, 106>>, <<76, 398, 520, 374, 120, 491, 170>>, <<394, 37, 142, 54, 535, 109, 612>>, <<478, 8, 44, 9, 32, 119, 534>>,
      <<467, 272, 452, 80, 66, 361, 328>>, <<386, 198, 528, 547, 381, 195, 394>>, <<566, 195, 377, 506, 147, 311, 377>>, <<494, 414, 110, 415, 510, 395, 550>>,
      <<605, 619, 363, 276, 620, 265, 126>>, <<268, 486, 105, 190, 70, 291, 275>>, <<591, 594, 357, 197, 149, 379, 38>>, <<179, 226, 377, 226, 338, 408, 467>>,
      <<596, 54, 506, 547, 251, 483, 324>>, <<218, 473, 184, 396, 397, 113, 417>>, <<506, 99, 18, 516, 567, 307, 411>>, <<229, 290, 601, 425, 330, 235, 292>>,
      <<457, 358, 480, 610, 216, 472, 204>>, <<41, 291, 434, 528, 88, 192, 14>>, <<606, 86, 343, 95, 174, 96, 224>>, <<76, 384, 10, 612, 99, 411, 282>>,
      <<376, 453, 213, 343, 565, 158, 506>>, <<455, 184, 380, 51, 422, 111, 267>>, <<557, 455, 29, 537, 525, 107, 411>>, <<598, 590, 185, 621, 528, 44, 156>>,
      <<570, 9, 490, 247, 36, 252, 348>>, <<516, 334, 44, 321, 614, 468, 299>>, <<469, 448, 329, 400, 213, 582, 464>>, <<264, 428, 471, 352, 241, 97, 244>>,
      <<242, 132, 371, 239, 511, 542, 455>>, <<321, 314, 576, 292, 309, 102, 617>>, <<392, 557, 136, 97, 413, 476, 314>>, <<621, 98, 75, 608, 178, 267, 110>>,
      <<98, 65, 128, 258, 556, 101, 620>>, <<490, 455, 351, 392, 449, 254, 567>>, <<405, 377, 318, 514, 389, 130, 373>>, <<35, 249, 187, 605, 137, 99, 405>>,
      <<437, 293, 472, 252, 571, 232, 588>>, <<334, 71, 496, 85, 610, 231, 381>>, <<128, 58, 425, 6, 357, 70, 375>>, <<244, 48, 380, 440, 246, 187, 103>>,
      <<422, 346, 333, 431, 327, 545, 300>>, <<583, 120, 447, 495, 279, 324, 546>>, <<274, 269, 336, 54, 579, 374, 119>>, <<94, 273, 594, 130, 299, 240, 169>>,
      <<35, 559, 148, 340, 362, 261, 545>>, <<259, 205, 125, 458, 331, 226, 342>>, <<198, 271, 75, 427, 277, 47, 133>>, <<130, 79, 220, 270, 227, 370, 342>>,
      <<386, 601, 32, 126, 136, 275, 578>>, <<199, 433, 244, 500, 56, 444, 505>>, <<277, 49, 234, 208, 301, 515, 271>>, <<613, 614, 519, 211, 239, 236, 506>>,
      <<133, 422, 408, 214, 75, 426, 489>>, <<491, 160, 497, 55, 455, 498, 568>>, <<462, 7, 595, 216, 326, 411, 282>>, <<478, 585, 607, 358, 257, 347, 468>>,
      <<420, 130, 308, 90, 3, 97, 133>>, <<95, 599, 440, 5, 87, 403, 192>>, <<51, 29, 594, 138, 397, 106, 425>>, <<616, 509, 26, 194, 29, 597, 517>>,
      <<244, 356, 251, 117, 174, 155, 324>>, <<178, 127, 360, 444, 291, 443, 414>>, <<161, 387, 590, 552, 462, 444, 270>>, <<400, 302, 420, 520, 432, 618, 540>>,
      <<45, 473, 157, 169, 32, 191, 385>>, <<177, 172, 536, 60, 536, 46, 78>>, <<469, 457, 73, 64, 154, 18, 34>>, <<30, 360, 565, 292, 267, 168, 411>>,
      <<543, 310, 565, 440, 308, 449, 538>>, <<343, 597, 568, 254, 440, 227, 171>>, <<101, 171, 525, 348, 557, 348, 374>>, <<344, 34, 392, 128, 61, 457, 260>>,
      <<24, 437, 156, 614, 116, 30, 232>>, <<117, 597, 259, 54, 304, 58, 262>>, <<599, 89, 69, 94, 220, 616, 579>>, <<612, 597, 194, 289, 137, 367, 618>>,
      <<458, 352, 337, 64, 197, 16, 429>>, <<379, 445, 117, 87, 279, 607, 44>>, <<115, 225, 288, 340, 102, 21, 73>>, <<71, 140, 400, 587, 80, 114, 577>>,
      <<90, 87, 504, 200, 82, 571, 191>>, <<584, 102, 279, 260, 188, 226, 600>>, <<590, 564, 319, 455, 488, 222, 226>>, <<553, 238, 298, 178, 274, 173, 234>>
    >>,
    <<
      <<449, 200, 19, 556, 187, 60, 548>>, <<122, 502, 371, 159, 439, 475, 210>>, <<580, 380, 268, 353, 15, 317, 32>>, <<142, 366, 163, 121, 56, 277, 37>>,
      <<370, 415, 554, 607, 184, 336, 277>>, <<214, 497, 394, 576, 269, 10, 83>>, <<93, 126, 477, 315, 7, 331, 367>>, <<586, 285, 17, 290, 195, 151, 57>>,
      <<535, 173, 375, 141, 538, 532, 264>>, <<214, 303, 9, 116, 261, 523, 27>>, <<591, 97, 341, 175, 505, 303, 339>>, <<543, 299, 503, 360, 421, 43, 618>>,
      <<317, 562, 176, 5, 284, 412, 505>>, <<51, 604, 542, 508, 75, 581, 258>>, <<580, 72, 161, 376, 297, 229, 547>>, <<129, 587, 511, 140, 105, 125, 234>>,
      <<273, 130, 149, 59, 583, 8, 394>>, <<139, 116, 554, 46, 363, 55, 227>>, <<502, 268, 617, 293, 352, 565, 298>>, <<382, 51, 74, 50, 321, 376, 36>>,
      <<602, 539, 1, 592, 353, 276, 108>>, <<300, 33, 89, 0, 550, 30, 147>>, <<404, 361, 350, 468, 268, 47, 117>>, <<5, 341, 298, 494, 47, 581, 76>>,
      <<577, 408, 146, 552, 602, 445, 563>>, <<365, 452, 268, 110, 17, 472, 52>>, <<205, 215, 104, 330, 361, 143, 86>>, <<294, 459, 488, 502, 104, 51, 277>>,
      <<120, 389, 569, 79, 112, 550, 382>>, <<124, 442, 270, 297, 184, 418, 371>>, <<499, 536, 191, 491, 559, 110, 343>>, <<131, 295, 600, 393, 365, 552, 533>>,
      <<607, 46, 385, 422, 410, 36, 418>>, <<64, 286, 55, 97, 215, 580, 562>>, <<37, 61, 10, 43, 547, 390, 80>>, <<535, 74, 453, 46, 410, 444, 408>>,
      <<358, 448, 446, 432, 252, 166, 536>>, <<524, 38, 286, 19, 299, 183, 576>>, <<499, 370, 242, 13, 230, 256, 456>>, <<225, 491, 159, 65, 539, 104, 136>>,
      <<480, 19, 196, 261, 485, 188, 537>>, <<194, 206, 536, 502, 447, 25, 359>>, <<598, 24, 406, 22, 266, 102, 171>>, <<151, 28, 570, 462, 56, 608, 284>>,
      <<78, 33, 596, 258, 109, 367, 544>>, <<233, 462, 457, 305, 464, 91, 315>>, <<591, 150, 208, 539, 385, 4, 349>>, <<535, 493, 374, 410, 585, 544, 15>>,
      <<455, 394, 390, 556, 46, 335, 232>>, <<216, 538, 479, 520, 27, 165, 480>>, <<311, 423, 26, 594, 607, 149, 304>>, <<418, 386, 566, 272, 105, 528, 62>>,
      <<66, 578, 50, 373, 507, 254, 365>>, <<91, 617, 486, 206, 595, 542, 393>>, <<373, 364, 383, 203, 608, 456, 57>>, <<410, 546, 497, 414, 544, 332, 22>>,
      <<185, 447, 72, 51, 222, 595, 493>>, <<410, 151, 408, 63, 75, 43, 185>>, <<172, 423, 31, 56, 183, 60, 268>>, <<543, 426, 236, 402, 107, 439, 440>>,
      <<96, 231, 55, 598, 172, 563, 300>>, <<17, 502, 239, 365, 591, 228, 551>>, <<529, 95, 350, 74, 440, 404, 18>>, <<55, 586, 229, 10, 151, 122, 322>>,
      <<407, 34, 112, 171, 370, 188, 115>>, <<193, 309, 369, 203, 450, 193, 216>>, <<280, 492, 40, 535, 581, 347, 334>>, <<538, 379, 331, 527, 38, 260, 606>>,
      <<176, 436, 383, 574, 453, 12, 145>>, <<475, 408, 353, 585, 234, 4, 163>>, <<4, 356, 398, 425, 65, 132, 504>>, <<236, 263, 109, 49, 592, 325, 156>>,
      <<205, 49, 492, 295, 229, 485, 492>>, <<125, 396, 293, 57, 520, 257, 83>>, <<71, 482, 356, 168, 573, 215, 425>>, <<356, 163, 298, 189, 99, 377, 23>>,
      <<532, 376, 420, 105, 172, 158, 267>>, <<58, 108, 210, 70, 257, 467, 234>>, <<578, 473, 232, 355, 46, 517, 95>>, <<407, 123, 518, 305, 336, 205, 108>>,
      <<36, 371, 585, 601, 71, 168, 279>>, <<27, 610, 49, 579, 586, 591, 426>>, <<127, 535, 376, 483, 380, 413, 478>>, <<201, 169, 35, 106, 411, 153, 183>>,
      <<59, 259, 174, 465, 284, 193, 581>>, <<217, 339, 573, 473, 548, 348, 280>>, <<219, 50, 252, 207, 465, 303, 393>>, <<571, 30, 36, 196, 618, 216, 60>>,
      <<92, 523, 278, 544, 37, 622, 74>>, <<524, 59, 46, 293, 394, 165, 178>>, <<25, 222, 431, 489, 578, 590, 275>>, <<340, 460, 349, 589, 572, 264, 258>>,
      <<357, 393, 280, 569, 552, 550, 189>>, <<183, 480, 192, 120, 116, 159, 165>>, <<402, 2, 5, 495, 110, 295, 324>>, <<56, 43, 415, 135, 61, 445, 178>>,
      <<415, 384, 586, 176, 267, 1, 329>>, <<466, 59, 129, 81, 250, 169, 236>>, <<563, 18, 174, 21, 315, 272, 389>>, <<56, 149, 617, 45, 369, 520, 315>>,
      <<203, 442, 600, 543, 521, 74, 467>>, <<486, 218, 367, 263, 379, 190, 25>>, <<465, 384, 6, 476, 518, 186, 243>>, <<276, 465, 610, 518, 199, 294, 371>>,
      <<445, 408, 31, 277, 106, 522, 438>>, <<526, 123, 603, 20, 347, 306, 478>>, <<190, 359, 453, 618, 69, 432, 557>>, <<350, 254, 346, 311, 163, 25, 115>>,
      <<216, 552, 215, 218, 125, 111, 203>>, <<98, 65, 103, 463, 234, 277, 338>>, <<559, 395, 68, 434, 269, 463, 60>>, <<272, 615, 232, 399, 0, 121, 101>>,
      <<587, 440, 91, 588, 150, 297, 192>>, <<531, 21, 370, 286, 260, 35, 550>>, <<74, 568, 234, 536, 190, 264, 115>>, <<127, 558, 203, 397, 102, 550, 263>>,
      <<223, 595, 579, 87, 360, 456, 532>>, <<100, 176, 387, 373, 108, 117, 3>>, <<226, 324, 422, 142, 343, 106, 177>>, <<240, 228, 539, 454, 284, 173, 464>>,
      <<18, 480, 126, 56, 331, 53, 551>>, <<56, 145, 123, 98, 201, 345, 103>>, <<191, 598, 258, 190, 476, 49, 370>>, <<67, 499, 421, 377, 334, 344, 467>>,
      <<256, 285, 206, 444, 414, 104, 143>>, <<432, 253, 331, 584, 349, 459, 345>>, <<129, 195, 341, 594, 532, 137, 33>>, <<108, 238, 192, 254, 537, 473, 136>>,
      <<312, 188, 157, 545, 415, 548, 315>>, <<392, 603, 488, 427, 222, 127, 67>>, <<509, 337, 502, 97, 349, 363, 241>>, <<355, 338, 190, 605, 249, 411, 61>>,
      <<520, 70, 149, 261, 145, 601, 53>>, <<93, 552, 555, 514, 434, 167, 193>>, <<355, 413, 262, 283, 268, 437, 178>>, <<242, 113, 338, 284, 243, 557, 127>>,
      <<235, 156, 602, 39, 101, 146, 188>>, <<5, 265, 61, 268, 192, 28, 255>>, <<297, 142, 389, 243, 396, 305, 29>>, <<123, 1, 451, 368, 180, 402, 361>>,
      <<567, 504, 537, 81, 128, 525, 101>>, <<352, 406, 383, 126, 560, 193, 522>>, <<598, 462, 211, 112, 264, 408, 377>>, <<492, 276, 452, 120, 522, 491, 287>>,
      <<11, 545, 506, 249, 377, 486, 488>>, <<521, 296, 64, 329, 389, 421, 270>>, <<209, 473, 390, 142, 521, 358, 336>>, <<102, 359, 515, 325, 445, 181, 215>>,
      <<502, 325, 220, 295, 39, 132, 608>>, <<197, 287, 274, 270, 171, 246, 236>>, <<610, 608, 177, 157, 423, 381, 524>>, <<422, 455, 448, 16, 585, 11, 447>>,
      <<333, 601, 13, 616, 425, 237, 331>>, <<375, 92, 563, 97, 383, 132, 392>>, <<202, 318, 448, 461, 292, 294, 383>>, <<404, 150, 423, 98, 120, 375, 18>>,
      <<274, 441, 364, 189, 94, 519, 236>>, <<318, 608, 378, 456, 2, 472, 41>>, <<532, 53, 344, 188, 474, 109, 246>>, <<374, 185, 417, 518, 151, 267, 136>>,
      <<180, 79, 316, 281, 401, 263, 597>>, <<170, 318, 306, 16, 369, 369, 542>>, <<247, 76, 485, 225, 233, 45, 244>>, <<447, 5, 156, 139, 16, 589, 309>>,
      <<498, 530, 483, 95, 244, 137, 507>>, <<283, 117, 422, 90, 543, 621, 608>>, <<64, 94, 333, 223, 276, 127, 261>>, <<358, 266, 269, 606, 276, 46, 533>>,
      <<565, 108, 74, 466, 316, 140, 243>>, <<577, 6, 178, 180, 206, 267, 584>>, <<214, 358, 571, 480, 537, 376, 370>>, <<279, 364, 248, 129, 88, 572, 580>>,
      <<430, 324, 60, 163, 530, 29, 82>>, <<93, 508, 352, 411, 533, 156, 514>>, <<382, 16, 97, 391, 162, 611, 379>>, <<367, 307, 293, 338, 82, 119, 95>>,
      <<184, 170, 469, 356, 518, 1, 434>>, <<426, 499, 413, 141, 266, 569, 204>>, <<569, 104, 6, 18, 538, 278, 573>>, <<396, 341, 300, 456, 372, 397, 119>>,
      <<568, 472, 221, 239, 162, 17, 290>>, <<219, 90, 506, 399, 288, 158, 236>>, <<4, 500, 96, 499, 320, 105, 362>>, <<198, 480, 410, 291, 36, 186, 68>>,
      <<170, 280, 493, 15, 272, 291, 553>>, <<30, 424, 97, 290, 440, 576, 175>>, <<605, 609, 409, 168, 192, 139, 386>>, <<483, 175, 489, 344, 182, 397, 208>>,
      <<51, 473, 79, 304, 280, 117, 409>>, <<22, 568, 46, 22, 172, 182, 482>>, <<428, 352, 226, 535, 472, 153, 484>>, <<241, 271, 226, 461, 309, 557, 476>>,
      <<467, 410, 194, 411, 178, 126, 249>>, <<141, 604, 228, 41, 120, 463, 152>>, <<345, 0, 234, 453, 583, 415, 582>>, <<564, 486, 387, 459, 276, 251, 225>>,
      <<361, 275, 27, 56, 275, 300, 86>>, <<41, 167, 618, 26, 314, 285, 170>>, <<379, 584, 335, 152, 528, 144, 19>>, <<524, 499, 341, 231, 169, 525, 147>>
    >>
  >>

\* BloomFilter(capacity, k_hashes): size = int(-(capacity * ln 0.05) / ln(2)^2).
SimpleBloomNew(capacity, k_hashes) ==
    LET size == (capacity * 6235224) \div 1000000
    IN [k |-> k_hashes, size |-> size,
        bit_array |-> [i \in 1..((size + BitsPerByte - 1) \div BitsPerByte) |-> 0]]

\* _hashes(item) of a filter of 623 bits.
SimpleHashes(b, seed, item) == SubSeq(SimpleHashMod[seed][item], 1, b.k)

\* bit_array[position // 8] |= (1 << (position % 8)).
SimpleSetBit(bit_array, position) ==
    [bit_array EXCEPT ![(position \div BitsPerByte) + 1] =
                         BitOr(@, Pow2(position % BitsPerByte))]

\* add: the positions set one after the other.
RECURSIVE SimpleSetBits(_, _)
SimpleSetBits(bit_array, positions) ==
    IF positions = <<>> THEN bit_array
    ELSE SimpleSetBits(SimpleSetBit(bit_array, Head(positions)), Tail(positions))

\* might_contain.
SimpleMightContain(b, seed, item) ==
    \A i \in 1..b.k :
        LET position == SimpleHashes(b, seed, item)[i]
        IN BitAnd(b.bit_array[(position \div BitsPerByte) + 1],
                  Pow2(position % BitsPerByte)) /= 0

\* estimate_fpr(n_items) < 0.05: (1 - e^(-k n / m))^k is below 0.05 exactly
\* when n / m is below the bound of FprLoadLimitPpm[k].
SimpleEstimateBelowCeiling(b, n_items) ==
    n_items * 1000000 <= b.size * FprLoadLimitPpm[b.k]

InitSimple ==
    /\ bloom = SimpleBloomNew(SimpleCapacity, SimpleHashCount)
    /\ \E seed \in HashSeeds : mgr = [hashseed |-> seed]
    /\ calls = [added |-> 0, probed |-> 0, false_positive |-> 0]
    /\ cuckoo = <<>>
    /\ metrics = MetricsNew
    /\ raised = FALSE
    /\ result = "None"
    /\ status = [k \in Keys |-> "unknown"]
    /\ bfKeys = {}
    /\ pc = [t \in Threads |-> "idle"]
    /\ loc = [t \in Threads |-> NoLocals]
    /\ retired = NoRetired
    /\ last = [op |-> "none", item |-> 0]

\* bf.add(item) for the next item of dataset.
SimpleAdd ==
    /\ calls.added < DatasetSize
    /\ LET item == calls.added + 1
       IN /\ bloom' = [bloom EXCEPT !.bit_array =
                          SimpleSetBits(@, SimpleHashes(bloom, mgr.hashseed, item))]
          /\ last' = [op |-> "add", item |-> item]
    /\ calls' = [calls EXCEPT !.added = @ + 1]
    /\ UNCHANGED <<cuckoo, mgr, metrics, raised, result, status, bfKeys, pc, loc, retired>>

\* bf.might_contain(item) and item not in dataset, for the next item of
\* test_data.
SimpleProbe ==
    /\ calls.added = DatasetSize
    /\ calls.probed < TestSize
    /\ LET item == DatasetSize + calls.probed + 1
           hit == SimpleMightContain(bloom, mgr.hashseed, item)
       IN /\ result' = IF hit THEN "True" ELSE "False"
          /\ calls' = [calls EXCEPT !.probed = @ + 1,
                                    !.false_positive = IF hit THEN @ + 1 ELSE @]
          /\ last' = [op |-> "might_contain", item |-> item]
    /\ UNCHANGED <<cuckoo, bloom, mgr, metrics, raised, status, bfKeys, pc, loc, retired>>

NextSimple == SimpleAdd \/ SimpleProbe

SpecSimple == InitSimple /\ [][NextSimple]_vars

(***************************************************************************)
(* Properties of the single-caller specifications.                         *)
(***************************************************************************)
\* The keys reported (inserted) and not removed since.
Tracked == {key \in Keys : status[key] = "tracked"}

\* The indices of the occupied slots.
Occupied == {i \in 1..Len(cuckoo.table) : cuckoo.table[i] /= None}

\* C1 (Spec): once report_malicious_ip(K, t) has returned and K has not
\* been removed, fast_check(K) returns MALICIOUS in every later state, after
\* any further reports, fast_checks, rehashes and Bloom rebuilds.
C1_ReportedKeyIsMalicious ==
    ~raised =>
        \A key \in Tracked : FastCheckResult(bloom, Tbl(cuckoo), key) = "MALICIOUS"

\* A fast_check answered MALICIOUS after a rehash and a Bloom rebuild, with
\* every key of the model tracked.
C1_Witness ==
    /\ ~raised
    /\ result = "MALICIOUS"
    /\ Tracked = Keys
    /\ mgr.bloom_rebuilds >= 1
    /\ cuckoo.rehash_count >= 1

\* C3 (SpecBloom): might_contain(K) is true for every key K inserted into
\* the filter instance, after every further insert and insert_many.
C3_NoFalseNegatives ==
    \A key \in bfKeys : MightContain(bloom, key)

\* Two keys were inserted, the last might_contain returned True, and the
\* filter still answers False for the key that was not inserted.
C3_Witness ==
    /\ Cardinality(bfKeys) = 2
    /\ bloom.inserted >= 2
    /\ result = "True"
    /\ \E key \in Keys \ bfKeys : ~MightContain(bloom, key)

\* C4 (Spec): report_malicious_ip touches the Bloom filter only after
\* cuckoo.insert of that key has returned True: a report whose insert raises
\* leaves the Bloom bit array, the Bloom inserted count and the insertions
\* metric as they were, and a report that changes the filter has the key in
\* the Cuckoo table.
C4_CuckooBeforeBloom ==
    [][\A key \in Keys, timestamp \in Timestamps :
          /\ (raised' /\ ReportMaliciousIp(key, timestamp)) =>
                /\ bloom'.bits = bloom.bits
                /\ bloom'.inserted = bloom.inserted
                /\ metrics'.insertions = metrics.insertions
          /\ (bloom' /= bloom /\ ReportMaliciousIp(key, timestamp)) =>
                /\ ~raised'
                /\ Get(Tbl(cuckoo'), key) /= None]_vars

\* A report whose insert raised, on a manager whose filter holds two keys.
C4_Witness ==
    /\ raised
    /\ bloom.inserted = 2
    /\ metrics.insertions = 2
    /\ Cardinality(bfKeys) = 2

\* C5 (Spec): no step that keeps K stored changes its first_seen or lowers
\* its last_seen; a re-report of K at t2 leaves the Cuckoo size unchanged
\* and sets last_seen to max(previous last_seen, t2); and the first report
\* of K at t1 (it counts one insertion) stores first_seen = last_seen = t1.
C5_ReReportKeepsFirstSeen ==
    [][\A key \in Keys :
          LET old == Get(Tbl(cuckoo), key)
              new == Get(Tbl(cuckoo'), key)
          IN ~raised' =>
              /\ (old /= None /\ new /= None) =>
                    /\ new.first_seen = old.first_seen
                    /\ new.last_seen >= old.last_seen
              /\ \A timestamp \in Timestamps :
                    /\ (old /= None /\ ReportMaliciousIp(key, timestamp)) =>
                          /\ cuckoo'.size = cuckoo.size
                          /\ new.last_seen = Max(old.last_seen, timestamp)
                    /\ (/\ old = None
                        /\ metrics'.insertions > metrics.insertions
                        /\ ReportMaliciousIp(key, timestamp)) =>
                          new = ReputationEntry(key, timestamp, timestamp)]_vars

\* A key first reported at 1 and reported again at 2, and a key first
\* reported at 2 whose last_seen is still 2, after a rehash.
C5_Witness ==
    /\ ~raised
    /\ \E key \in Tracked : Get(Tbl(cuckoo), key) = ReputationEntry(key, 1, 2)
    /\ \E key \in Tracked : Get(Tbl(cuckoo), key) = ReputationEntry(key, 2, 2)
    /\ cuckoo.rehash_count >= 1

\* C6 (SpecTable): remove(K) of a stored K returns True, lowers size by
\* exactly 1, makes get(K) None and leaves get of every other key as it
\* was; remove(K) of a key not stored returns False and leaves table, size,
\* capacity and rehash_count unchanged.
C6_RemoveSemantics ==
    [][\A key \in Keys :
          TableRemove(key) =>
              IF Get(Tbl(cuckoo), key) /= None
              THEN /\ RemoveReturns(Tbl(cuckoo), key)
                   /\ cuckoo'.size = cuckoo.size - 1
                   /\ Get(Tbl(cuckoo'), key) = None
                   /\ \A other \in Keys \ {key} :
                         Get(Tbl(cuckoo'), other) = Get(Tbl(cuckoo), other)
                   /\ cuckoo'.capacity = cuckoo.capacity
              ELSE /\ ~RemoveReturns(Tbl(cuckoo), key)
                   /\ cuckoo' = cuckoo]_vars

\* A remove just took a key out of a table that had been rehashed, and two
\* other keys are still stored.
C6_Witness ==
    /\ ~raised
    /\ last.op = "remove"
    /\ Cardinality({key \in Keys : status[key] = "removed"}) = 1
    /\ \A key \in Keys : status[key] = "removed" => Get(Tbl(cuckoo), key) = None
    /\ Cardinality({key \in Tracked : Get(Tbl(cuckoo), key) /= None}) = 2
    /\ cuckoo.rehash_count >= 1

\* C7 (Spec): fast_check of a removed key returns CLEAN or
\* BLOOM_FALSE_POSITIVE, never MALICIOUS, until the key is reported again,
\* and fast_check of a key reported and not removed returns MALICIOUS, also
\* after later maybe_rescale calls.
C7_DeleteKeepsRecall ==
    ~raised =>
        \A key \in Keys :
            /\ status[key] = "removed" =>
                  FastCheckResult(bloom, Tbl(cuckoo), key)
                      \in {"CLEAN", "BLOOM_FALSE_POSITIVE"}
            /\ status[key] = "tracked" =>
                  FastCheckResult(bloom, Tbl(cuckoo), key) = "MALICIOUS"

\* After a Bloom rebuild one removed key is a Bloom false positive, another
\* removed key is clean, and the remaining key is still tracked.
C7_Witness ==
    /\ ~raised
    /\ mgr.bloom_rebuilds >= 1
    /\ result = "BLOOM_FALSE_POSITIVE"
    /\ \E key \in Keys : /\ status[key] = "removed"
                         /\ FastCheckResult(bloom, Tbl(cuckoo), key) = "CLEAN"
    /\ Tracked /= {}

\* C8 as stated (SpecTable): insert(K, e) of a stored K replaces the entry
\* by e, returns True and changes neither size nor capacity nor the entry
\* of any other key.
C8_OverwriteKeepsCapacity ==
    [][\A key \in Keys, first \in Timestamps, lastSeen \in Timestamps :
          (TableInsert(key, first, lastSeen) /\ Get(Tbl(cuckoo), key) /= None) =>
              /\ ~raised'
              /\ Get(Tbl(cuckoo'), key) = ReputationEntry(key, first, lastSeen)
              /\ cuckoo'.size = cuckoo.size
              /\ cuckoo'.capacity = cuckoo.capacity
              /\ \A other \in Keys \ {key} :
                    Get(Tbl(cuckoo'), other) = Get(Tbl(cuckoo), other)]_vars

\* C8 amended (SpecTable): insert(K, e) of a stored K replaces the entry by
\* e, returns True and changes neither size nor the entry of any other key;
\* the capacity stays as it was when load_factor() < 0.9 at the call, and
\* when load_factor() >= 0.9 the table is rehashed first, to at least twice
\* the capacity.
C8_OverwriteRehashesAtLoadLimit ==
    [][\A key \in Keys, first \in Timestamps, lastSeen \in Timestamps :
          (TableInsert(key, first, lastSeen) /\ Get(Tbl(cuckoo), key) /= None) =>
              /\ ~raised'
              /\ Get(Tbl(cuckoo'), key) = ReputationEntry(key, first, lastSeen)
              /\ cuckoo'.size = cuckoo.size
              /\ \A other \in Keys \ {key} :
                    Get(Tbl(cuckoo'), other) = Get(Tbl(cuckoo), other)
              /\ IF LoadAtLimit(Tbl(cuckoo))
                 THEN /\ cuckoo'.capacity >= 2 * cuckoo.capacity
                      /\ cuckoo'.rehash_count > cuckoo.rehash_count
                 ELSE /\ cuckoo'.capacity = cuckoo.capacity
                      /\ cuckoo'.rehash_count = cuckoo.rehash_count]_vars

\* The last call overwrote a stored key in a full two-slot table and left
\* a four-slot table that still holds both keys.
C8_Witness ==
    /\ ~raised
    /\ last = [op |-> "overwrite", capacity |-> 2]
    /\ cuckoo.capacity = 4
    /\ cuckoo.size = 2
    /\ Cardinality({key \in Tracked : Get(Tbl(cuckoo), key) /= None}) = 2

\* C9 (SpecTable): between completed calls size equals the number of
\* occupied slots, which equals the number of keys inserted and not
\* removed, and no key occupies two slots.
C9_SizeCountsDistinctKeys ==
    ~raised =>
        /\ cuckoo.size = Cardinality(Occupied)
        /\ cuckoo.size = Cardinality(Tracked)
        /\ \A i \in Occupied, j \in Occupied :
              cuckoo.table[i].ip = cuckoo.table[j].ip => i = j

\* All three keys are stored after two rehashes, the last call being an
\* insert of a new key into a table of two slots.
C9_Witness ==
    /\ ~raised
    /\ cuckoo.size = 3
    /\ Tracked = Keys
    /\ cuckoo.rehash_count >= 2
    /\ last = [op |-> "insert", capacity |-> 2]

\* C10 as stated (SpecTable): right after every completed insert and every
\* completed rehash, size / capacity is at most the load limit 0.9.
C10_LoadWithinLimit ==
    [][(/\ ~raised'
        /\ \/ \E key \in Keys, first \in Timestamps, lastSeen \in Timestamps :
                 TableInsert(key, first, lastSeen)
           \/ \E growth_factor \in GrowthFactors :
                 /\ TableMaybeRehash(growth_factor)
                 /\ cuckoo'.rehash_count > cuckoo.rehash_count)
       => cuckoo'.size * LoadLimitDen <= LoadLimitNum * cuckoo'.capacity]_vars

\* n is a power of two.
IsPowerOfTwo(n) == \E i \in 0..(MaxCapacity + 1) : n = Pow2(i)

\* C11 (SpecTable): the capacity is a power of two in every state, after
\* construction, after insert-triggered rehashes and after maybe_rehash
\* with any growth factor (also once an allocation has raised), the slot
\* list of a table that has not raised has capacity slots, and
\* _next_power_of_two(n) is the least power of two >= n for every
\* requested capacity n.
C11_CapacityPowerOfTwo ==
    /\ IsPowerOfTwo(cuckoo.capacity)
    /\ ~raised => Len(cuckoo.table) = cuckoo.capacity
    /\ \A n \in 1..(3 * MaxCapacity) :
          /\ IsPowerOfTwo(NextPowerOfTwo(n))
          /\ NextPowerOfTwo(n) >= n
          /\ NextPowerOfTwo(n) < 2 * n

\* maybe_rehash with growth factor 3 took a full one-slot table to four
\* slots (3 is not a power of two).
C11_Witness ==
    /\ ~raised
    /\ last = [op |-> "maybe_rehash", capacity |-> 1]
    /\ cuckoo.capacity = 4
    /\ cuckoo.size = 1

RECURSIVE InsertGrowths(_, _, _)
RECURSIVE KickLoopGrowths(_, _, _, _)

\* How many times one insert(key, entry) call, its own retries included,
\* reaches the end of the eviction loop and calls _rehash(capacity * 2):
\* the path of Insert and KickLoop, counting instead of building the table.
InsertGrowths(T, key, entry) ==
    LET T1 == IF LoadAtLimit(T) THEN Rehash(T, T.capacity * 2) ELSE T
    IN IF ~T1.ok \/ IsPresent(T1, key) THEN 0
       ELSE KickLoopGrowths(T1, key, entry, 0)

KickLoopGrowths(T, key, new_entry, kick) ==
    IF kick >= MaxKicks
    THEN LET T1 == Rehash(T, T.capacity * 2)
         IN IF ~T1.ok THEN 1 ELSE 1 + InsertGrowths(T1, key, new_entry)
    ELSE LET pos1 == Hash1(key, T.capacity)
             pos2 == Hash2(key, T.capacity)
             pos == IF kick % 2 = 0 THEN pos1 ELSE pos2
         IN IF TryPlaceOk(T, pos1, new_entry) \/ TryPlaceOk(T, pos2, new_entry) THEN 0
            ELSE KickLoopGrowths([T EXCEPT !.table[pos + 1] = new_entry],
                                 Slot(T, pos).ip, Slot(T, pos), kick + 1)

\* C12 as stated (SpecKick): an insert whose eviction chain reaches
\* max_kicks grows the table and retries once; it never grows and retries
\* a second time (a retry that reaches max_kicks again ends the call with
\* an error, the table not grown again).
C12_RetryExactlyOnce ==
    [][\A key \in KickKeys, first \in Timestamps, lastSeen \in Timestamps :
          TableInsert(key, first, lastSeen) =>
             InsertGrowths(Tbl(cuckoo), key, ReputationEntry(key, first, lastSeen)) <= 1]_vars

\* Some slot of the table holds an entry of the key.
Holds(key) ==
    \E i \in 1..Len(cuckoo.table) :
        cuckoo.table[i] /= None /\ cuckoo.table[i].ip = key

\* C16 (Spec): fast_check(K) returns CLEAN exactly when might_contain(K) is
\* false on the active filter, MALICIOUS exactly when it is true and the
\* table holds K, BLOOM_FALSE_POSITIVE exactly when it is true and the
\* table does not hold K; on a manager with nothing inserted it returns
\* CLEAN for every key.
C16_FastCheckResults ==
    [][\A key \in Keys :
          FastCheck(key) =>
             /\ (result' = "CLEAN") <=> ~MightContain(bloom, key)
             /\ (result' = "MALICIOUS") <=> (MightContain(bloom, key) /\ Holds(key))
             /\ (result' = "BLOOM_FALSE_POSITIVE") <=>
                   (MightContain(bloom, key) /\ ~Holds(key))
             /\ metrics.insertions = 0 => result' = "CLEAN"]_vars

\* A fast_check of a key whose bits are set in the first filter and whose
\* entry was removed has returned BLOOM_FALSE_POSITIVE while another key is
\* still stored.
C16_Witness ==
    /\ ~raised
    /\ result = "BLOOM_FALSE_POSITIVE"
    /\ mgr.bloom_rebuilds = 0
    /\ metrics.cuckoo_misses = 1
    /\ cuckoo.size >= 1

\* A probability in millionths lies in (0, 1).
ValidFpr(p) == 0 < p /\ p < 1000000

\* C17 (SpecConfig): invalid configuration is rejected at construction:
\* for_capacity raises for expected_items <= 0 or target_fpr outside (0,1),
\* BloomFilter for m_bits <= 0 or k_hash <= 0, CuckooHashTable for
\* capacity <= 0, ReputationManager for fpr_limit outside (0,1) or a growth
\* factor below 2; no object exists in an invalid configuration.
C17_InvalidConfigRejected ==
    /\ (last.op = "for_capacity" /\ (last.args[1] <= 0 \/ ~ValidFpr(last.args[2])))
          => result = "ValueError"
    /\ (last.op = "BloomFilter" /\ (last.args[1] <= 0 \/ last.args[2] <= 0))
          => result = "ValueError"
    /\ (last.op = "CuckooHashTable" /\ last.args[1] <= 0) => result = "ValueError"
    /\ (last.op = "ReputationManager" /\ (~ValidFpr(last.args[1]) \/ last.args[2] < 2))
          => result = "ValueError"
    /\ \A i \in 1..Len(bloom) : bloom[i].m > 0 /\ bloom[i].k > 0
    /\ \A i \in 1..Len(cuckoo) : cuckoo[i].capacity > 0
    /\ \A i \in 1..Len(mgr) :
          ValidFpr(mgr[i].fpr_limit) /\ mgr[i].cuckoo_growth_factor >= 2

C19_FprBelowCeiling ==
    /\ calls.added = DatasetSize => SimpleEstimateBelowCeiling(bloom, DatasetSize)
    /\ calls.probed = TestSize => calls.false_positive * 100 < 5 * TestSize

\* C13 as stated (SpecRescale): the filter a rebuild of maybe_rescale
\* installs has estimate_fpr() <= fpr_limit.
C13_RebuiltFprWithinLimit ==
    [][mgr'.bloom_rebuilds > mgr.bloom_rebuilds => ~FprExceeded(bloom')]_vars

\* estimate_fpr() of the manager's filter exceeds fpr_limit.
ActiveFprExceeded == ~raised /\ FprExceeded(bloom)

\* A rebuild has happened.
Rebuilt == mgr.bloom_rebuilds >= 1

\* C14 as stated (SpecReports): once enough keys are reported that
\* estimate_fpr() exceeds fpr_limit, a Bloom rebuild eventually happens
\* (bloom_rebuilds >= 1) although the caller never calls maintenance or
\* maybe_rescale.
C14_ReportsForceRebuild ==
    ActiveFprExceeded ~> Rebuilt

\* C15 as stated (SpecRescale): a second maintenance(now) right after a
\* first changes nothing: in the state the first call leaves, maybe_rehash
\* does not rehash (capacity and rehash_count stay) and estimate_fpr() is
\* not above fpr_limit (no rebuild: m, k, bits and bloom_rebuilds stay).
C15_MaintenanceIdempotent ==
    [][\A now \in Timestamps :
          (Maintenance(now) /\ ~raised') =>
             LET T == MaybeRehash(Tbl(cuckoo'), LoadLimitNum, LoadLimitDen, CuckooGrowthFactor)
             IN /\ T.capacity = cuckoo'.capacity
                /\ T.rehash_count = cuckoo'.rehash_count
                /\ ~FprExceeded(bloom')]_vars

\* _rehash(new_capacity) counts more than itself: a further _rehash was
\* started by an insert of its re-insertion loop (rehash_count is raised
\* nowhere else).
RehashNests(T, new_capacity) ==
    Rehash(T, new_capacity).rehash_count > T.rehash_count + 1

\* C22 as stated (SpecTable): _rehash is not nested: a maybe_rehash call
\* raises rehash_count by at most 1, and the rehash an insert requests at
\* load_factor() >= 0.9 starts no further rehash while it re-inserts.
C22_RehashNotNested ==
    [][/\ \A growth_factor \in GrowthFactors :
             TableMaybeRehash(growth_factor) =>
                /\ cuckoo'.rehash_count <= cuckoo.rehash_count + 1
                /\ ~RehashNests(Tbl(cuckoo), Max(1, cuckoo.capacity * growth_factor))
       /\ \A key \in Keys, first \in Timestamps, lastSeen \in Timestamps :
             (TableInsert(key, first, lastSeen) /\ LoadAtLimit(Tbl(cuckoo))) =>
                ~RehashNests(Tbl(cuckoo), cuckoo.capacity * 2)]_vars

\* The entries the table stores.
Stored(c) == {c.table[i] : i \in 1..Len(c.table)} \ {None}

(***************************************************************************)
(* SpecContents: the calls of SpecTable on either of its tables, the one   *)
(* of SpecTable with its keys or the two-slot one of SpecKick with the     *)
(* colliding keys.                                                         *)
(***************************************************************************)
InitContents == InitTable \/ InitKick

NextContents ==
    \/ \E key \in DOMAIN status, first \in Timestamps, lastSeen \in Timestamps :
          TableInsert(key, first, lastSeen)
    \/ \E key \in DOMAIN status : TableRemove(key)
    \/ \E growth_factor \in GrowthFactors : TableMaybeRehash(growth_factor)

SpecContents == InitContents /\ [][NextContents]_vars

\* C23 (SpecContents): a call that returns keeps the contents through every
\* rehash it makes: maybe_rehash with any growth factor leaves the set of
\* stored (key, first_seen, last_seen) entries and size as they were, and
\* insert leaves the entries of the other keys as they were and stores the
\* new entry, also when its eviction chain ran out of kicks and ended in a
\* rehash; size is the number of entries stored.
C23_RehashKeepsContents ==
    [][~raised' =>
          /\ \A growth_factor \in GrowthFactors :
                TableMaybeRehash(growth_factor) =>
                   /\ Stored(cuckoo') = Stored(cuckoo)
                   /\ cuckoo'.size = cuckoo.size
          /\ \A key \in DOMAIN status, first \in Timestamps, lastSeen \in Timestamps :
                TableInsert(key, first, lastSeen) =>
                   /\ Stored(cuckoo') =
                         {e \in Stored(cuckoo) : e.ip /= key}
                            \cup {ReputationEntry(key, first, lastSeen)}
                   /\ cuckoo'.size = Cardinality(Stored(cuckoo'))]_vars

\* An insert of a new key into a two-slot table holding one entry (its load
\* is 0.5) ran out of kicks and rehashed to four slots; both entries are
\* stored.
C23_Witness ==
    /\ ~raised
    /\ last = [op |-> "insert", capacity |-> 2]
    /\ cuckoo.capacity = 4
    /\ cuckoo.size = 2
    /\ cuckoo.rehash_count >= 1
    /\ Cardinality(Stored(cuckoo)) = 2

\* C24 (SpecContents): between completed calls every stored entry sits at
\* index _hash1(entry.ip) or _hash2(entry.ip) of the current capacity, and
\* get(K) returns the entry of every key K inserted and not removed, after
\* any evictions and rehashes.
C24_PlacementInvariant ==
    ~raised =>
        /\ \A i \in 1..Len(cuckoo.table) :
              cuckoo.table[i] /= None =>
                 i - 1 \in {Hash1(cuckoo.table[i].ip, cuckoo.capacity),
                            Hash2(cuckoo.table[i].ip, cuckoo.capacity)}
        /\ \A key \in DOMAIN status :
              status[key] = "tracked" =>
                 /\ Get(Tbl(cuckoo), key) /= None
                 /\ Get(Tbl(cuckoo), key).ip = key

\* After a rehash three keys are stored, one of them at its second
\* candidate index, its first one held by another key.
C24_Witness ==
    /\ ~raised
    /\ cuckoo.rehash_count >= 1
    /\ cuckoo.size = 3
    /\ \A key \in DOMAIN status : status[key] = "tracked"
    /\ \E i \in 1..Len(cuckoo.table) :
          /\ cuckoo.table[i] /= None
          /\ i - 1 = Hash2(cuckoo.table[i].ip, cuckoo.capacity)
          /\ i - 1 /= Hash1(cuckoo.table[i].ip, cuckoo.capacity)
          /\ Slot(Tbl(cuckoo), Hash1(cuckoo.table[i].ip, cuckoo.capacity)) /= None

(***************************************************************************)
(* SpecGrow: one caller inserting into and removing from a two-slot        *)
(* CuckooHashTable the keys of GrowKeys, on a machine whose allocation     *)
(* limit is GrowCapacity slots: insert, its eviction loop and _rehash as   *)
(* in Insert, KickLoop, Rehash and ReinsertAll, with that limit.           *)
(***************************************************************************)
RECURSIVE InsertWithin(_, _, _, _)
RECURSIVE KickLoopWithin(_, _, _, _, _)
RECURSIVE RehashWithin(_, _, _)
RECURSIVE ReinsertAllWithin(_, _, _)

\* insert.
InsertWithin(T, key, entry, limit) ==
    LET T1 == IF LoadAtLimit(T) THEN RehashWithin(T, T.capacity * 2, limit) ELSE T
    IN IF ~T1.ok THEN T1
       ELSE IF IsPresent(T1, key) THEN PlaceIfPresent(T1, key, entry)
       ELSE KickLoopWithin(T1, key, entry, 0, limit)

\* The eviction loop of insert, then _rehash(capacity * 2) and
\* insert(key, new_entry).
KickLoopWithin(T, key, new_entry, kick, limit) ==
    IF kick >= MaxKicks
    THEN LET T1 == RehashWithin(T, T.capacity * 2, limit)
         IN IF ~T1.ok THEN T1 ELSE InsertWithin(T1, key, new_entry, limit)
    ELSE LET pos1 == Hash1(key, T.capacity)
             pos2 == Hash2(key, T.capacity)
             pos == IF kick % 2 = 0 THEN pos1 ELSE pos2
         IN IF TryPlaceOk(T, pos1, new_entry) THEN TryPlace(T, pos1, new_entry)
            ELSE IF TryPlaceOk(T, pos2, new_entry) THEN TryPlace(T, pos2, new_entry)
            ELSE KickLoopWithin([T EXCEPT !.table[pos + 1] = new_entry],
                                Slot(T, pos).ip, Slot(T, pos), kick + 1, limit)

\* _rehash (MemoryError beyond limit slots).
RehashWithin(T, new_capacity, limit) ==
    LET nc == NextPowerOfTwo(new_capacity)
        old_entries == Entries(T)
    IN IF nc > limit
       THEN [T EXCEPT !.rehash_count = @ + 1, !.capacity = nc, !.ok = FALSE]
       ELSE ReinsertAllWithin([table |-> [i \in 1..nc |-> None], capacity |-> nc,
                               size |-> 0, rehash_count |-> T.rehash_count + 1,
                               ok |-> TRUE],
                              old_entries, limit)

\* for entry in old_entries: self.insert(entry.ip, entry).
ReinsertAllWithin(T, entries, limit) ==
    IF entries = <<>> \/ ~T.ok THEN T
    ELSE ReinsertAllWithin(InsertWithin(T, Head(entries).ip, Head(entries), limit),
                           Tail(entries), limit)

InitGrow ==
    /\ cuckoo = Obj(CuckooNew(2))
    /\ \E p \in InitBloomParams : bloom = BloomFilterNew(p[1], p[2])
    /\ mgr = [bloom_rebuilds |-> 0, cuckoo_rescale_no |-> 1,
              bloom_rescale_no |-> 1, bloom_rebuild_events |-> <<>>]
    /\ metrics = MetricsNew
    /\ raised = FALSE
    /\ result = "None"
    /\ status = [k \in GrowKeys |-> "unknown"]
    /\ bfKeys = {}
    /\ pc = [t \in Threads |-> "idle"]
    /\ loc = [t \in Threads |-> NoLocals]
    /\ retired = NoRetired
    /\ last = NoCall
    /\ calls = NoCalls

\* table.insert(ip, entry), entry any ReputationEntry of that key.
GrowInsert(key, first, lastSeen) ==
    /\ ~raised
    /\ first <= lastSeen
    /\ LET T == InsertWithin(Tbl(cuckoo), key, ReputationEntry(key, first, lastSeen),
                             GrowCapacity)
       IN /\ cuckoo' = Obj(T)
          /\ raised' = ~T.ok
          /\ status' = IF T.ok THEN [status EXCEPT ![key] = "tracked"] ELSE status
    /\ last' = [op |-> IF IsPresent(Tbl(cuckoo), key) THEN "overwrite" ELSE "insert",
                capacity |-> cuckoo.capacity]
    /\ UNCHANGED <<bloom, mgr, metrics, result, bfKeys, pc, loc, retired, calls>>

NextGrow ==
    \/ \E key \in GrowKeys, first \in Timestamps, lastSeen \in Timestamps :
          GrowInsert(key, first, lastSeen)
    \/ \E key \in GrowKeys : TableRemove(key)

SpecGrow == InitGrow /\ [][NextGrow]_vars

\* C25 as stated (SpecGrow): an insert call ends after a bounded number of
\* growths: it doubles the table at most 3 times (every _rehash of an
\* insert call is a doubling, and counts 1 in rehash_count).
C25_InsertGrowthBounded ==
    [][\A key \in GrowKeys, first \in Timestamps, lastSeen \in Timestamps :
          GrowInsert(key, first, lastSeen) =>
             cuckoo'.rehash_count <= cuckoo.rehash_count + 3]_vars

\* The bit positions of the filter that are set.
SetPositions(b) == {pos \in 0..(b.m - 1) : GetBit(b.bits, pos)}

\* The bit positions of the keys of the stored entries.
StoredPositions(b, c) ==
    UNION {{Positions(b, e.ip)[i] : i \in 1..b.k} : e \in Stored(c)}

\* C26 (Spec): a maybe_rescale call that returns rebuilds the filter only
\* when estimate_fpr() > fpr_limit, else leaves it as it was.  The filter it
\* installs is built from the table as the call leaves it, after any
\* rehash: might_contain is true for every stored key, the bits set are
\* exactly the bits of the stored keys, the inserted count is len(cuckoo);
\* the call leaves the stored entries as they were and counts one rebuild.
C26_RebuildFromRehashedTable ==
    [][(MaybeRescale /\ ~raised') =>
          IF FprExceeded(bloom)
          THEN /\ \A e \in Stored(cuckoo') : MightContain(bloom', e.ip)
               /\ SetPositions(bloom') = StoredPositions(bloom', cuckoo')
               /\ bloom'.inserted = cuckoo'.size
               /\ Stored(cuckoo') = Stored(cuckoo)
               /\ mgr'.bloom_rebuilds = mgr.bloom_rebuilds + 1
               /\ Len(mgr'.bloom_rebuild_events) = Len(mgr.bloom_rebuild_events) + 1
          ELSE /\ bloom' = bloom
               /\ mgr'.bloom_rebuilds = mgr.bloom_rebuilds]_vars

\* One maybe_rescale call has rehashed the full two-slot table to four
\* slots and rebuilt the filter from its two keys.
C26_Witness ==
    /\ ~raised
    /\ mgr.cuckoo_rescale_no = 2
    /\ cuckoo.rehash_count = 1
    /\ cuckoo.capacity = 4
    /\ mgr.bloom_rebuilds = 1
    /\ mgr.bloom_rebuild_events[1].active = 2
    /\ bloom.inserted = 2
    /\ cuckoo.size = 2

\* C27 (SpecRescale): every Bloom rebuild makes progress: the filter it
\* installs has at least twice the bits of the one it replaces and at least
\* m_req bits, the rebuild counts 1 in bloom_rebuilds and logs one event,
\* and no other step changes m, bloom_rebuilds or the event log: the bit
\* count never decreases.
C27_RebuildMakesProgress ==
    [][IF MaybeRescale /\ FprExceeded(bloom) /\ ~raised'
       THEN /\ bloom'.m >= 2 * bloom.m
            /\ bloom'.m >= MReq(Active(Tbl(cuckoo)))
            /\ mgr'.bloom_rebuilds = mgr.bloom_rebuilds + 1
            /\ Len(mgr'.bloom_rebuild_events) = Len(mgr.bloom_rebuild_events) + 1
            /\ mgr'.bloom_rebuild_events[Len(mgr'.bloom_rebuild_events)].m_bits = bloom'.m
            /\ mgr'.bloom_rebuild_events[Len(mgr'.bloom_rebuild_events)].prev_m_bits = bloom.m
       ELSE /\ bloom'.m = bloom.m
            /\ mgr'.bloom_rebuilds = mgr.bloom_rebuilds
            /\ mgr'.bloom_rebuild_events = mgr.bloom_rebuild_events]_vars

\* Two rebuilds in a row on 17 keys: the first from 8 bits to m_req = 106
\* bits (more than twice 8), the second doubling to 212 bits (more than
\* m_req).
C27_Witness ==
    /\ ~raised
    /\ mgr.bloom_rebuilds = 2
    /\ Len(mgr.bloom_rebuild_events) = 2
    /\ mgr.bloom_rebuild_events[1].m_bits = mgr.bloom_rebuild_events[1].m_req
    /\ mgr.bloom_rebuild_events[1].m_bits > 2 * mgr.bloom_rebuild_events[1].prev_m_bits
    /\ mgr.bloom_rebuild_events[2].m_bits = 2 * mgr.bloom_rebuild_events[2].prev_m_bits
    /\ mgr.bloom_rebuild_events[2].m_bits > mgr.bloom_rebuild_events[2].m_req
    /\ bloom.m = 212

\* Every bit of the byte array old is still set in new.
BitsKept(old, new) ==
    /\ Len(new) = Len(old)
    /\ \A i \in 1..Len(old) : BitAnd(old[i], new[i]) = old[i]

\* C28 (SpecFilter): within one BloomFilter instance no call (insert,
\* insert_many, might_contain, estimate_fpr, the getters) clears a set bit
\* or changes m or k; the inserted count never decreases, grows by exactly 1
\* per insert call and by the number of keys per insert_many call, repeated
\* keys included, and the reading calls leave the filter as it was.
C28_BitsOnlySet ==
    [][/\ bloom'.m = bloom.m
       /\ bloom'.k = bloom.k
       /\ BitsKept(bloom.bits, bloom'.bits)
       /\ bloom'.inserted >= bloom.inserted
       /\ \A key \in Keys :
             FilterInsert(key) => bloom'.inserted = bloom.inserted + 1
       /\ \A key1 \in Keys, key2 \in Keys :
             FilterInsertMany(key1, key2) => bloom'.inserted = bloom.inserted + 2
       /\ ((\E key \in Keys : FilterMightContain(key))
              \/ FilterEstimateFpr \/ FilterGetInsertedCount
              \/ FilterMBits \/ FilterKHash) => bloom' = bloom]_vars

\* One key was inserted three times: its bits are set, the count read back
\* is 3.
C28_Witness ==
    /\ Cardinality(bfKeys) = 1
    /\ \A key \in bfKeys : MightContain(bloom, key)
    /\ \E i \in 1..Len(bloom.bits) : bloom.bits[i] /= 0
    /\ bloom.inserted = 3
    /\ last = [op |-> "get_inserted_count", value |-> 3]

(***************************************************************************)
(* SpecConc: threads calling report_malicious_ip, fast_check and           *)
(* maybe_rescale on one manager.  The manager takes no lock of its own;    *)
(* each BloomFilter and CuckooHashTable method runs under that object's    *)
(* RLock and is one step, and so is each read or write of an attribute     *)
(* (self.bloom, a counter, entry.last_seen).  status[K] becomes "tracked"  *)
(* when a report of K returns.                                             *)
(***************************************************************************)
\* The filter object a loaded reference points to.
Deref(ref) == IF ref = retired.gen THEN bloom ELSE retired.objs[ref]

\* The replaced filter objects still referenced once the locals are locs.
Referenced(objs, locs) ==
    LET held == {locs[t].ref : t \in Threads} \cap DOMAIN objs
    IN [g \in held |-> objs[g]]

\* entry.last_seen = value, on the entry object of key in the table.
StoreLastSeen(T, key, value) ==
    LET pos1 == Hash1(key, T.capacity)
        pos2 == Hash2(key, T.capacity)
        pos == IF Slot(T, pos1) /= None /\ Slot(T, pos1).ip = key THEN pos1 ELSE pos2
    IN [T EXCEPT !.table[pos + 1].last_seen = value]

\* The counter an "x += 1" names: a Metrics field or a manager attribute.
Counter(name) == IF name \in DOMAIN metrics THEN metrics[name] ELSE mgr[name]

\* The thread goes on to add 1 to each counter of incs, then to pc next.
Counting(l, incs, next) == [l EXCEPT !.incs = incs, !.next = next]

\* report_malicious_ip(key, ts), first step: entry = self.cuckoo.get(key).
ReportGet(t, key, ts) ==
    /\ ~raised /\ pc[t] = "idle"
    /\ calls.report < MaxInsertions
    /\ calls' = [calls EXCEPT !.report = @ + 1]
    /\ loc' = [loc EXCEPT ![t] = [NoLocals EXCEPT !.op = "report", !.key = key, !.ts = ts]]
    /\ pc' = [pc EXCEPT ![t] = IF Get(Tbl(cuckoo), key) /= None
                               THEN "r_touch_read" ELSE "r_insert"]
    /\ UNCHANGED <<cuckoo, bloom, mgr, metrics, raised, result, status, bfKeys, retired, last>>

\* max(entry.last_seen, timestamp): the read of entry.last_seen.
ReportTouchRead(t) ==
    /\ ~raised /\ pc[t] = "r_touch_read"
    /\ loc' = [loc EXCEPT ![t].tmp =
                  IF loc[t].orphan THEN 0 ELSE Get(Tbl(cuckoo), loc[t].key).last_seen]
    /\ pc' = [pc EXCEPT ![t] = "r_touch_write"]
    /\ UNCHANGED <<cuckoo, bloom, mgr, metrics, raised, result, status, bfKeys, retired, last, calls>>

\* entry.last_seen = ...: the write.  An entry object that an insert of the
\* same key has replaced in the table is written without effect on the table.
ReportTouchWrite(t) ==
    /\ ~raised /\ pc[t] = "r_touch_write"
    /\ cuckoo' = IF loc[t].orphan THEN cuckoo
                 ELSE Obj(StoreLastSeen(Tbl(cuckoo), loc[t].key, Max(loc[t].tmp, loc[t].ts)))
    /\ pc' = [pc EXCEPT ![t] = "r_return"]
    /\ UNCHANGED <<bloom, mgr, metrics, raised, result, status, bfKeys, loc, retired, last, calls>>

\* self.cuckoo.insert(key, new_entry): one step under the table's lock,
\* rehashes included.  Threads holding the entry object it replaces hold an
\* object that is no longer in the table.
ReportInsert(t) ==
    /\ ~raised /\ pc[t] = "r_insert"
    /\ LET key == loc[t].key
           T == Insert(Tbl(cuckoo), key, ReputationEntry(key, loc[t].ts, loc[t].ts))
       IN /\ cuckoo' = Obj(T)
          /\ raised' = ~T.ok
          /\ pc' = [pc EXCEPT ![t] = IF T.ok THEN "r_bloom_load" ELSE "idle"]
          /\ loc' = [u \in Threads |->
                        IF /\ u /= t /\ T.ok /\ loc[u].key = key
                           /\ pc[u] \in {"r_touch_read", "r_touch_write"}
                        THEN [loc[u] EXCEPT !.orphan = TRUE] ELSE loc[u]]
    /\ UNCHANGED <<bloom, mgr, metrics, result, status, bfKeys, retired, last, calls>>

\* self.bloom.insert(key): the load of self.bloom.
ReportBloomLoad(t) ==
    /\ ~raised /\ pc[t] = "r_bloom_load"
    /\ loc' = [loc EXCEPT ![t].ref = retired.gen]
    /\ pc' = [pc EXCEPT ![t] = "r_bloom_insert"]
    /\ UNCHANGED <<cuckoo, bloom, mgr, metrics, raised, result, status, bfKeys, retired, last, calls>>

\* self.bloom.insert(key): insert on the loaded filter object, then
\* self.metrics.record_insertion().
ReportBloomInsert(t) ==
    /\ ~raised /\ pc[t] = "r_bloom_insert"
    /\ LET ref == loc[t].ref
           locs == [loc EXCEPT ![t] = Counting([loc[t] EXCEPT !.ref = NoRef],
                                               <<"insertions">>, "r_return")]
       IN /\ IF ref = retired.gen
             THEN /\ bloom' = BloomInsert(bloom, loc[t].key)
                  /\ bfKeys' = bfKeys \cup {loc[t].key}
                  /\ retired' = [retired EXCEPT !.objs = Referenced(@, locs)]
             ELSE /\ retired' = [retired EXCEPT !.objs =
                         Referenced([@ EXCEPT ![ref] = BloomInsert(@, loc[t].key)], locs)]
                  /\ UNCHANGED <<bloom, bfKeys>>
          /\ loc' = locs
    /\ pc' = [pc EXCEPT ![t] = "m_read"]
    /\ UNCHANGED <<cuckoo, mgr, metrics, raised, result, status, last, calls>>

\* report_malicious_ip returns.
ReportReturn(t) ==
    /\ ~raised /\ pc[t] = "r_return"
    /\ status' = [status EXCEPT ![loc[t].key] = "tracked"]
    /\ pc' = [pc EXCEPT ![t] = "idle"]
    /\ loc' = [loc EXCEPT ![t] = NoLocals]
    /\ UNCHANGED <<cuckoo, bloom, mgr, metrics, raised, result, bfKeys, retired, last, calls>>

\* "x += 1" on a counter: the read.
CounterRead(t) ==
    /\ ~raised /\ pc[t] = "m_read"
    /\ loc' = [loc EXCEPT ![t].tmp = Counter(Head(loc[t].incs))]
    /\ pc' = [pc EXCEPT ![t] = "m_write"]
    /\ UNCHANGED <<cuckoo, bloom, mgr, metrics, raised, result, status, bfKeys, retired, last, calls>>

\* "x += 1" on a counter: the write of the value read, plus 1.
CounterWrite(t) ==
    /\ ~raised /\ pc[t] = "m_write"
    /\ LET name == Head(loc[t].incs)
       IN IF name \in DOMAIN metrics
          THEN /\ metrics' = [metrics EXCEPT ![name] = loc[t].tmp + 1]
               /\ UNCHANGED mgr
          ELSE /\ mgr' = [mgr EXCEPT ![name] = loc[t].tmp + 1]
               /\ UNCHANGED metrics
    /\ loc' = [loc EXCEPT ![t].incs = Tail(@), ![t].tmp = 0]
    /\ pc' = [pc EXCEPT ![t] = IF Tail(loc[t].incs) = <<>> THEN loc[t].next ELSE "m_read"]
    /\ UNCHANGED <<cuckoo, bloom, raised, result, status, bfKeys, retired, last, calls>>

\* fast_check(key), first step: the load of self.bloom.  after records
\* whether a report of the key had returned when the call started.
CheckBloomLoadUpTo(t, key, cap) ==
    /\ ~raised /\ pc[t] = "idle"
    /\ calls.fast_check < cap
    /\ calls' = [calls EXCEPT !.fast_check = @ + 1]
    /\ loc' = [loc EXCEPT ![t] = [NoLocals EXCEPT !.op = "fast_check", !.key = key,
                                                 !.after = (status[key] = "tracked"),
                                                 !.ref = retired.gen]]
    /\ pc' = [pc EXCEPT ![t] = "c_might_contain"]
    /\ UNCHANGED <<cuckoo, bloom, mgr, metrics, raised, result, status, bfKeys, retired, last>>

CheckBloomLoad(t, key) == CheckBloomLoadUpTo(t, key, MaxChecks)

\* in_bloom = self.bloom.might_contain(key) on the loaded filter object,
\* then record_bloom_check and, on a miss, record_lookup_latency.
CheckMightContain(t) ==
    /\ ~raised /\ pc[t] = "c_might_contain"
    /\ LET in_bloom == MightContain(Deref(loc[t].ref), loc[t].key)
           l == [loc[t] EXCEPT !.ref = NoRef,
                               !.result = IF in_bloom THEN "None" ELSE "CLEAN"]
           locs == [loc EXCEPT ![t] =
                       IF in_bloom
                       THEN Counting(l, <<"bloom_checks", "bloom_hits">>, "c_cuckoo")
                       ELSE Counting(l, <<"bloom_checks", "bloom_misses", "lookup_count">>,
                                     "c_return")]
       IN /\ loc' = locs
          /\ retired' = [retired EXCEPT !.objs = Referenced(@, locs)]
    /\ pc' = [pc EXCEPT ![t] = "m_read"]
    /\ UNCHANGED <<cuckoo, bloom, mgr, metrics, raised, result, status, bfKeys, last, calls>>

\* entry = self.cuckoo.get(key), then record_cuckoo_hit and
\* record_lookup_latency.
CheckCuckoo(t) ==
    /\ ~raised /\ pc[t] = "c_cuckoo"
    /\ LET hit == Get(Tbl(cuckoo), loc[t].key) /= None
           l == [loc[t] EXCEPT !.result = IF hit THEN "MALICIOUS"
                                          ELSE "BLOOM_FALSE_POSITIVE"]
       IN loc' = [loc EXCEPT ![t] =
                     Counting(l, <<IF hit THEN "cuckoo_hits" ELSE "cuckoo_misses",
                                   "lookup_count">>, "c_return")]
    /\ pc' = [pc EXCEPT ![t] = "m_read"]
    /\ UNCHANGED <<cuckoo, bloom, mgr, metrics, raised, result, status, bfKeys, retired, last, calls>>

\* fast_check returns its CheckResult.
CheckReturn(t) ==
    /\ ~raised /\ pc[t] = "c_return"
    /\ result' = loc[t].result
    /\ pc' = [pc EXCEPT ![t] = "idle"]
    /\ loc' = [loc EXCEPT ![t] = NoLocals]
    /\ UNCHANGED <<cuckoo, bloom, mgr, metrics, raised, status, bfKeys, retired, last, calls>>

\* maybe_rescale(), first step: self.cuckoo.maybe_rehash(0.9, 2), then
\* cuckoo_rescale_no += 1 when it rehashed.
RescaleRehashUpTo(t, cap) ==
    /\ ~raised /\ pc[t] = "idle"
    /\ calls.maybe_rescale < cap
    /\ calls' = [calls EXCEPT !.maybe_rescale = @ + 1]
    /\ LET T == MaybeRehash(Tbl(cuckoo), LoadLimitNum, LoadLimitDen, CuckooGrowthFactor)
           did_rehash == MaybeRehashDue(Tbl(cuckoo), LoadLimitNum, LoadLimitDen)
           l == [NoLocals EXCEPT !.op = "maybe_rescale"]
       IN /\ cuckoo' = Obj(T)
          /\ raised' = ~T.ok
          /\ loc' = [loc EXCEPT ![t] =
                        IF did_rehash
                        THEN Counting(l, <<"cuckoo_rescale_no">>, "s_fpr_load")
                        ELSE l]
          /\ pc' = [pc EXCEPT ![t] = IF ~T.ok THEN "idle"
                                     ELSE IF did_rehash THEN "m_read"
                                     ELSE "s_fpr_load"]
    /\ UNCHANGED <<bloom, mgr, metrics, result, status, bfKeys, retired, last>>

RescaleRehash(t) == RescaleRehashUpTo(t, MaxRescales)

\* self.bloom.estimate_fpr(): the load of self.bloom.
RescaleFprLoad(t) ==
    /\ ~raised /\ pc[t] = "s_fpr_load"
    /\ loc' = [loc EXCEPT ![t].ref = retired.gen]
    /\ pc' = [pc EXCEPT ![t] = "s_fpr"]
    /\ UNCHANGED <<cuckoo, bloom, mgr, metrics, raised, result, status, bfKeys, retired, last, calls>>

\* estimate_fpr() > self.fpr_limit on the loaded filter object.
RescaleFpr(t) ==
    /\ ~raised /\ pc[t] = "s_fpr"
    /\ LET locs == [loc EXCEPT ![t].ref = NoRef]
       IN /\ loc' = locs
          /\ retired' = [retired EXCEPT !.objs = Referenced(@, locs)]
    /\ pc' = [pc EXCEPT ![t] = IF FprExceeded(Deref(loc[t].ref))
                               THEN "s_active" ELSE "s_return"]
    /\ UNCHANGED <<cuckoo, bloom, mgr, metrics, raised, result, status, bfKeys, last, calls>>

\* _rebuild_bloom: active = max(1, len(self.cuckoo)).
RescaleActive(t) ==
    /\ ~raised /\ pc[t] = "s_active"
    /\ loc' = [loc EXCEPT ![t].active = Active(Tbl(cuckoo)),
                          ![t].began = {key \in Keys : status[key] = "tracked"}]
    /\ pc' = [pc EXCEPT ![t] = "s_current_m_load"]
    /\ UNCHANGED <<cuckoo, bloom, mgr, metrics, raised, result, status, bfKeys, retired, last, calls>>

\* current_m = self.bloom.m_bits(): the load of self.bloom.
RescaleCurrentMLoad(t) ==
    /\ ~raised /\ pc[t] = "s_current_m_load"
    /\ loc' = [loc EXCEPT ![t].ref = retired.gen]
    /\ pc' = [pc EXCEPT ![t] = "s_current_m"]
    /\ UNCHANGED <<cuckoo, bloom, mgr, metrics, raised, result, status, bfKeys, retired, last, calls>>

\* current_m = self.bloom.m_bits() on the loaded filter object.
RescaleCurrentM(t) ==
    /\ ~raised /\ pc[t] = "s_current_m"
    /\ NewMOf(Deref(loc[t].ref).m, loc[t].active) <= MaxBloomBits
    /\ LET locs == [loc EXCEPT ![t].cur_m = Deref(loc[t].ref).m, ![t].ref = NoRef]
       IN /\ loc' = locs
          /\ retired' = [retired EXCEPT !.objs = Referenced(@, locs)]
    /\ pc' = [pc EXCEPT ![t] = "s_snapshot"]
    /\ UNCHANGED <<cuckoo, bloom, mgr, metrics, raised, result, status, bfKeys, last, calls>>

\* keys = (entry.ip for entry in self.cuckoo): CuckooHashTable.__iter__
\* copies the stored entries under the table's lock.
RescaleSnapshot(t) ==
    /\ ~raised /\ pc[t] = "s_snapshot"
    /\ loc' = [loc EXCEPT ![t].snapshot = IpsOf(Entries(Tbl(cuckoo)))]
    /\ pc' = [pc EXCEPT ![t] = "s_swap"]
    /\ UNCHANGED <<cuckoo, bloom, mgr, metrics, raised, result, status, bfKeys, retired, last, calls>>

\* new_bloom.insert_many(keys) on the thread's own new filter, then
\* self.bloom = new_bloom, then bloom_rebuilds += 1.
RescaleSwap(t) ==
    /\ ~raised /\ pc[t] = "s_swap"
    /\ LET new_m == NewMOf(loc[t].cur_m, loc[t].active)
           new_k == NewK(new_m, loc[t].active)
           locs == [loc EXCEPT ![t] = Counting(loc[t], <<"bloom_rebuilds">>, "s_event")]
       IN /\ bloom' = BloomInsertMany(BloomFilterNew(new_m, new_k), loc[t].snapshot)
          /\ retired' = [gen |-> retired.gen + 1,
                         objs |-> Referenced((retired.gen :> bloom) @@ retired.objs, locs)]
          /\ bfKeys' = {loc[t].snapshot[i] : i \in 1..Len(loc[t].snapshot)}
          /\ loc' = locs
    /\ pc' = [pc EXCEPT ![t] = "m_read"]
    /\ UNCHANGED <<cuckoo, mgr, metrics, raised, result, status, last, calls>>

\* self.bloom_rebuild_events.append(event), back in maybe_rescale
\* bloom_rescale_no += 1.
RescaleEvent(t) ==
    /\ ~raised /\ pc[t] = "s_event"
    /\ LET new_m == NewMOf(loc[t].cur_m, loc[t].active)
       IN mgr' = [mgr EXCEPT !.bloom_rebuild_events =
                     Append(@, [active |-> loc[t].active, m_bits |-> new_m,
                                k_hash |-> NewK(new_m, loc[t].active),
                                prev_m_bits |-> loc[t].cur_m,
                                m_req |-> MReq(loc[t].active)])]
    /\ loc' = [loc EXCEPT ![t] = Counting(loc[t], <<"bloom_rescale_no">>, "s_return")]
    /\ pc' = [pc EXCEPT ![t] = "m_read"]
    /\ UNCHANGED <<cuckoo, bloom, metrics, raised, result, status, bfKeys, retired, last, calls>>

\* maybe_rescale returns.
RescaleReturn(t) ==
    /\ ~raised /\ pc[t] = "s_return"
    /\ pc' = [pc EXCEPT ![t] = "idle"]
    /\ loc' = [loc EXCEPT ![t] = NoLocals]
    /\ UNCHANGED <<cuckoo, bloom, mgr, metrics, raised, result, status, bfKeys, retired, last, calls>>

NextConc ==
    \E t \in Threads :
        \/ \E key \in Keys, ts \in ConcTimestamps : ReportGet(t, key, ts)
        \/ ReportTouchRead(t)
        \/ ReportTouchWrite(t)
        \/ ReportInsert(t)
        \/ ReportBloomLoad(t)
        \/ ReportBloomInsert(t)
        \/ ReportReturn(t)
        \/ CounterRead(t)
        \/ CounterWrite(t)
        \/ \E key \in Keys : CheckBloomLoad(t, key)
        \/ CheckMightContain(t)
        \/ CheckCuckoo(t)
        \/ CheckReturn(t)
        \/ RescaleRehash(t)
        \/ RescaleFprLoad(t)
        \/ RescaleFpr(t)
        \/ RescaleActive(t)
        \/ RescaleCurrentMLoad(t)
        \/ RescaleCurrentM(t)
        \/ RescaleSnapshot(t)
        \/ RescaleSwap(t)
        \/ RescaleEvent(t)
        \/ RescaleReturn(t)

SpecConc == Init /\ [][NextConc]_vars

(***************************************************************************)
(* SpecSwap: SpecConc's steps with one thread calling maybe_rescale, up to *)
(* MaxSwapRescales times, and the others reporting and checking, on a      *)
(* manager built over BloomFilter(1, 1).                                   *)
(***************************************************************************)
SwapBloomParams == {<<1, 1>>}
MaintenanceThreads == {1}
TrafficThreads == Threads \ MaintenanceThreads

InitSwap ==
    /\ \E cap \in ManagerCapacities : cuckoo = Obj(CuckooNew(cap))
    /\ \E p \in SwapBloomParams : bloom = BloomFilterNew(p[1], p[2])
    /\ mgr = [bloom_rebuilds |-> 0, cuckoo_rescale_no |-> 1,
              bloom_rescale_no |-> 1, bloom_rebuild_events |-> <<>>]
    /\ metrics = MetricsNew
    /\ raised = FALSE
    /\ result = "None"
    /\ status = [k \in Keys |-> "unknown"]
    /\ bfKeys = {}
    /\ pc = [t \in Threads |-> "idle"]
    /\ loc = [t \in Threads |-> NoLocals]
    /\ retired = NoRetired
    /\ last = NoCall
    /\ calls = NoCalls

NextSwap ==
    \/ \E t \in TrafficThreads :
        \/ \E key \in Keys, ts \in ConcTimestamps : ReportGet(t, key, ts)
        \/ ReportTouchRead(t)
        \/ ReportTouchWrite(t)
        \/ ReportInsert(t)
        \/ ReportBloomLoad(t)
        \/ ReportBloomInsert(t)
        \/ ReportReturn(t)
        \/ \E key \in Keys : CheckBloomLoad(t, key)
        \/ CheckMightContain(t)
        \/ CheckCuckoo(t)
        \/ CheckReturn(t)
    \/ \E t \in MaintenanceThreads :
        \/ RescaleRehashUpTo(t, MaxSwapRescales)
        \/ RescaleFprLoad(t)
        \/ RescaleFpr(t)
        \/ RescaleActive(t)
        \/ RescaleCurrentMLoad(t)
        \/ RescaleCurrentM(t)
        \/ RescaleSnapshot(t)
        \/ RescaleSwap(t)
        \/ RescaleEvent(t)
        \/ RescaleReturn(t)
    \/ \E t \in Threads :
        \/ CounterRead(t)
        \/ CounterWrite(t)

SpecSwap == InitSwap /\ [][NextSwap]_vars

\* The thread is inside _rebuild_bloom: from its first statement to the
\* append of the event.
InRebuild(t) ==
    \/ pc[t] \in {"s_current_m_load", "s_current_m", "s_snapshot", "s_swap", "s_event"}
    \/ loc[t].op = "maybe_rescale" /\ pc[t] \in {"m_read", "m_write"} /\ loc[t].next = "s_event"

\* C20 (SpecSwap): a fast_check that probes its filter while a rebuild is
\* running, for a key that was tracked before that rebuild began, does not
\* get CLEAN: the filter it probes, the old one or the new one, holds the
\* key.
C20_NoCleanDuringRebuild ==
    [][\A t \in Threads, u \in Threads :
          (/\ CheckMightContain(t)
           /\ InRebuild(u)
           /\ loc[t].key \in loc[u].began)
             => loc'[t].result /= "CLEAN"]_vars

\* (h1 + i * h2) % m by steps: h1 % m for i = 0, then h2 added i times.
RECURSIVE KirschMitzenmacher(_, _, _)
KirschMitzenmacher(key, m, i) ==
    IF i = 0 THEN BfH1Mod[key][m]
    ELSE (KirschMitzenmacher(key, m, i - 1) + BfH2Mod[key][m]) % m

\* The positions of key in filter b follow the formula, lie in [0, m) and
\* inside the byte array, and are those of any other filter of the same m
\* and k: an insert into a new one sets exactly these bits, and might_contain
\* of b reads them.
PositionsPure(b, key) ==
    LET positions == Positions(b, key)
        other == BloomInsert(BloomFilterNew(b.m, b.k), key)
    IN /\ Len(positions) = b.k
       /\ \A i \in 1..b.k :
             /\ positions[i] = KirschMitzenmacher(key, b.m, i - 1)
             /\ positions[i] \in 0..(b.m - 1)
             /\ positions[i] \div BitsPerByte + 1 \in 1..Len(b.bits)
       /\ SetPositions(other) = {positions[i] : i \in 1..b.k}
       /\ MightContain(b, key) = (SetPositions(other) \subseteq SetPositions(b))

\* C30 (SpecRescale): the bit positions of a key are a function of the key,
\* m and k alone: position i is (h1 + i * h2) mod m for i in [0, k), inside
\* [0, m) and inside the byte array; insert sets and might_contain reads the
\* same positions, so the bits set in the filter are those of the inserted
\* keys; and the filter a rebuild installs derives them from the same h1 and
\* h2 as the one it replaces: where the new m is a multiple of the old one,
\* each position of the new filter reduces mod the old m to the position of
\* the old filter.
C30_PositionsPureFunction ==
    [][/\ \A key \in ManyKeys : PositionsPure(bloom, key) /\ PositionsPure(bloom', key)
       /\ SetPositions(bloom') =
             UNION {{Positions(bloom', key)[i] : i \in 1..bloom'.k} : key \in bfKeys'}
       /\ (bloom'.m /= bloom.m /\ bloom'.m % bloom.m = 0) =>
             \A key \in ManyKeys, i \in 1..bloom.k :
                i <= bloom'.k =>
                   Positions(bloom', key)[i] % bloom.m = Positions(bloom, key)[i]]_vars

\* A second rebuild doubled a filter whose m is not a multiple of 8, and a
\* stored key has a position that the filter it replaced did not have.
C30_Witness ==
    /\ ~raised
    /\ Len(mgr.bloom_rebuild_events) = 2
    /\ bloom.m = 2 * mgr.bloom_rebuild_events[2].prev_m_bits
    /\ mgr.bloom_rebuild_events[2].prev_m_bits % BitsPerByte /= 0
    /\ \E key \in bfKeys, i \in 1..bloom.k :
          /\ Positions(bloom, key)[i] >= mgr.bloom_rebuild_events[2].prev_m_bits
          /\ GetBit(bloom.bits, Positions(bloom, key)[i])

(***************************************************************************)
(* SpecLock: threads calling insert and might_contain on one BloomFilter.  *)
(* bloom carries the filter's _lock: the thread that holds it, 0 when it   *)
(* is free.  A call computes its positions, acquires the lock, sets or     *)
(* reads its bits one at a time inside the with block and releases the     *)
(* lock when the block ends.  bfKeys is the set of keys whose insert has   *)
(* returned; loc[t].began is that set when the call of t began, last the   *)
(* might_contain that returned last.                                       *)
(***************************************************************************)
LockFilterNew(m_bits, k_hash) ==
    [m |-> m_bits, k |-> k_hash,
     bits |-> [i \in 1..((m_bits + 7) \div BitsPerByte) |-> 0],
     inserted |-> 0, lock |-> 0]

\* RLock.acquire with every thread admitted at once.
LockAlwaysAvailable(b, t) == TRUE

\* RLock.acquire: the lock is free or the caller already owns it.
LockAvailable(b, t) == b.lock \in {0, t}

\* m_bits and k_hash arguments of BloomFilter.__init__ in SpecLock.
LockSizes == {8}
LockHashCounts == {2, 3}
\* Keys of the calls of SpecLock.
LockKeys == {108, 122}

InitLock ==
    /\ \E m_bits \in LockSizes, k_hash \in LockHashCounts :
          bloom = LockFilterNew(m_bits, k_hash)
    /\ cuckoo = Obj(CuckooNew(1))
    /\ mgr = [bloom_rebuilds |-> 0, cuckoo_rescale_no |-> 1,
              bloom_rescale_no |-> 1, bloom_rebuild_events |-> <<>>]
    /\ metrics = MetricsNew
    /\ raised = FALSE
    /\ result = "None"
    /\ status = [k \in Keys |-> "unknown"]
    /\ bfKeys = {}
    /\ pc = [t \in Threads |-> "idle"]
    /\ loc = [t \in Threads |-> NoLocals]
    /\ retired = NoRetired
    /\ last = NoCall
    /\ calls = NoCalls

\* The insert calls begun and not yet counted.
InsertsInFlight ==
    Cardinality({t \in Threads : pc[t] /= "idle" /\ pc[t] /= "bf_release"
                                 /\ loc[t].op = "insert"})

\* insert, lines 27-28: positions = self._positions(key), before the lock.
LockInsertCall(t, key) ==
    /\ pc[t] = "idle"
    /\ bloom.inserted + InsertsInFlight < MaxInsertions
    /\ pc' = [pc EXCEPT ![t] = "bf_acquire"]
    /\ loc' = [loc EXCEPT ![t] = [NoLocals EXCEPT !.op = "insert", !.key = key,
                                     !.snapshot = Positions(bloom, key),
                                     !.tmp = 1]]
    /\ UNCHANGED <<cuckoo, bloom, mgr, metrics, raised, result, status, bfKeys, retired, last, calls>>

\* might_contain, lines 41-42: positions = self._positions(key), before the
\* lock.
LockMightContainCall(t, key) ==
    /\ pc[t] = "idle"
    /\ pc' = [pc EXCEPT ![t] = "bf_acquire"]
    /\ loc' = [loc EXCEPT ![t] = [NoLocals EXCEPT !.op = "might_contain", !.key = key,
                                     !.snapshot = Positions(bloom, key),
                                     !.tmp = 1, !.began = bfKeys]]
    /\ UNCHANGED <<cuckoo, bloom, mgr, metrics, raised, result, status, bfKeys, retired, last, calls>>

\* with self._lock: enter the block.
LockAcquire(t) ==
    /\ pc[t] = "bf_acquire"
    /\ LockAvailable(bloom, t)
    /\ bloom' = [bloom EXCEPT !.lock = t]
    /\ pc' = [pc EXCEPT ![t] = IF loc[t].op = "insert" THEN "bf_set" ELSE "bf_read"]
    /\ UNCHANGED <<cuckoo, mgr, metrics, raised, result, status, bfKeys, loc, retired, last, calls>>

\* insert, lines 30-31: one self._set_bit(pos) of the loop.
LockSetBit(t) ==
    /\ pc[t] = "bf_set"
    /\ bloom' = [bloom EXCEPT !.bits = SetBit(@, loc[t].snapshot[loc[t].tmp])]
    /\ loc' = [loc EXCEPT ![t].tmp = @ + 1]
    /\ pc' = [pc EXCEPT ![t] = IF loc[t].tmp = Len(loc[t].snapshot)
                               THEN "bf_count" ELSE "bf_set"]
    /\ UNCHANGED <<cuckoo, mgr, metrics, raised, result, status, bfKeys, retired, last, calls>>

\* insert, line 32: self._inserted += 1, the last statement of the block.
LockCount(t) ==
    /\ pc[t] = "bf_count"
    /\ bloom' = [bloom EXCEPT !.inserted = @ + 1]
    /\ pc' = [pc EXCEPT ![t] = "bf_release"]
    /\ UNCHANGED <<cuckoo, mgr, metrics, raised, result, status, bfKeys, loc, retired, last, calls>>

\* might_contain, line 44: one self._get_bit(pos) of all(...), which stops
\* at the first bit that is not set.
LockGetBit(t) ==
    /\ pc[t] = "bf_read"
    /\ LET bit == GetBit(bloom.bits, loc[t].snapshot[loc[t].tmp])
       IN /\ loc' = [loc EXCEPT ![t].tmp = @ + 1,
                                ![t].result =
                                    IF ~bit THEN "False"
                                    ELSE IF loc[t].tmp = Len(loc[t].snapshot) THEN "True"
                                    ELSE @]
          /\ pc' = [pc EXCEPT ![t] = IF ~bit \/ loc[t].tmp = Len(loc[t].snapshot)
                                     THEN "bf_release" ELSE "bf_read"]
    /\ UNCHANGED <<cuckoo, bloom, mgr, metrics, raised, result, status, bfKeys, retired, last, calls>>

\* The with block ends: the lock is released and the call returns.
LockRelease(t) ==
    /\ pc[t] = "bf_release"
    /\ bloom' = [bloom EXCEPT !.lock = IF @ = t THEN 0 ELSE @]
    /\ bfKeys' = IF loc[t].op = "insert" THEN bfKeys \cup {loc[t].key} ELSE bfKeys
    /\ last' = IF loc[t].op = "might_contain"
               THEN [op |-> "might_contain", key |-> loc[t].key,
                     value |-> loc[t].result, began |-> loc[t].began]
               ELSE last
    /\ pc' = [pc EXCEPT ![t] = "idle"]
    /\ loc' = [loc EXCEPT ![t] = NoLocals]
    /\ UNCHANGED <<cuckoo, mgr, metrics, raised, result, status, retired, calls>>

NextLock ==
    \E t \in Threads :
        \/ \E key \in LockKeys : LockInsertCall(t, key)
        \/ \E key \in LockKeys : LockMightContainCall(t, key)
        \/ LockAcquire(t)
        \/ LockSetBit(t)
        \/ LockCount(t)
        \/ LockGetBit(t)
        \/ LockRelease(t)

SpecLock == InitLock /\ [][NextLock]_vars

\* Thread t is inside the with block of its call.
InBlock(t) == pc[t] \in {"bf_set", "bf_count", "bf_read", "bf_release"}

\* C29 (SpecLock): insert sets its k bits, and might_contain reads its
\* bits, inside one critical section of the filter's lock: a thread inside
\* the block holds the lock, so no might_contain reads while an insert has
\* set only part of its bits; an insert that returns has all k bits of its
\* key set; a might_contain returns what the filter answers at that moment;
\* and a might_contain(K) begun after an insert(K) returned, in any thread,
\* returns True.
C29_InsertAtomicUnderLock ==
    [][/\ \A t \in Threads : InBlock(t) => bloom.lock = t
       /\ \A t \in Threads, u \in Threads :
             ~(pc[t] = "bf_read" /\ pc[u] \in {"bf_set", "bf_count"})
       /\ \A t \in Threads :
             LockRelease(t) =>
                IF loc[t].op = "insert"
                THEN MightContain(bloom', loc[t].key)
                ELSE /\ (loc[t].result = "True") = MightContain(bloom', loc[t].key)
                     /\ loc[t].key \in loc[t].began => loc[t].result = "True"]_vars

\* A might_contain(K) waits for the lock while another thread's insert(K)
\* has set some but not all of its bits, and an earlier might_contain of a
\* key whose insert had returned before it began has returned True.
C29_Witness ==
    /\ \E t \in Threads, u \in Threads :
          /\ pc[t] = "bf_acquire" /\ loc[t].op = "might_contain"
          /\ pc[u] = "bf_set" /\ loc[u].tmp > 1
          /\ loc[u].key = loc[t].key
          /\ bloom.lock = u
          /\ ~MightContain(bloom, loc[u].key)
    /\ last.op = "might_contain"
    /\ last.key \in last.began
    /\ last.value = "True"

(***************************************************************************)
(* SpecRace: SpecConc's report_malicious_ip steps alone, with any          *)
(* timestamp.  Calls that overlap report the same key; no thread calls     *)
(* maybe_rescale, so the filter object is never replaced.                  *)
(***************************************************************************)
\* report_malicious_ip(key, ts) starting while every running call is a
\* report of that key.
RaceReportGet(t, key, ts) ==
    /\ \A u \in Threads : pc[u] = "idle" \/ loc[u].key = key
    /\ ReportGet(t, key, ts)

NextRace ==
    \E t \in Threads :
        \/ \E key \in Keys, ts \in Timestamps : RaceReportGet(t, key, ts)
        \/ ReportTouchRead(t)
        \/ ReportTouchWrite(t)
        \/ ReportInsert(t)
        \/ ReportBloomLoad(t)
        \/ ReportBloomInsert(t)
        \/ ReportReturn(t)
        \/ CounterRead(t)
        \/ CounterWrite(t)

SpecRace == Init /\ [][NextRace]_vars

\* No call is running.
Quiescent == \A t \in Threads : pc[t] = "idle"

\* C21 as stated (SpecRace): under concurrent reports the entry of a
\* tracked key keeps its first_seen and never lowers its last_seen, and each
\* key is counted once: when no call is running, the Cuckoo size, the
\* insertions metric and the Bloom inserted count all equal the number of
\* keys stored.
C21_ConcurrentReportsCountOnce ==
    [][/\ (\A key \in Keys :
              LET old == Get(Tbl(cuckoo), key)
                  new == Get(Tbl(cuckoo'), key)
              IN (~raised' /\ status[key] = "tracked" /\ old /= None /\ new /= None) =>
                    (new.first_seen = old.first_seen /\ new.last_seen >= old.last_seen))
        /\ (Quiescent' /\ ~raised') =>
              /\ cuckoo'.size = Cardinality({key \in Keys : Get(Tbl(cuckoo'), key) /= None})
              /\ metrics'.insertions = cuckoo'.size
              /\ bloom'.inserted = cuckoo'.size]_vars

\* C2 as stated (SpecConc): a fast_check(K) that starts after a
\* report_malicious_ip(K) has returned, in any thread, does not return
\* CLEAN, also when a Bloom rebuild overlaps the report.
C2_NoCleanAfterReport ==
    \A t \in Threads :
        (pc[t] = "c_return" /\ loc[t].after) => loc[t].result /= "CLEAN"

\* C31 (Spec): fast_check of an IPKey does not raise and is read-only on
\* the filters: it leaves the Bloom filter (bits, m, k, inserted), the
\* Cuckoo table (slots with every entry's first_seen and last_seen, size,
\* capacity, rehash_count) and the rebuild counters as they were; only the
\* lookup counters of the metrics change (bloom_checks and lookup_count
\* grow by 1, one of bloom_hits and bloom_misses by 1, and one of
\* cuckoo_hits and cuckoo_misses by 1 on a Bloom hit), insertions and
\* evictions do not.
C31_FastCheckReadOnly ==
    [][\A key \in Keys :
          FastCheck(key) =>
             /\ ~raised'
             /\ result' \in {"CLEAN", "MALICIOUS", "BLOOM_FALSE_POSITIVE"}
             /\ bloom' = bloom
             /\ cuckoo' = cuckoo
             /\ mgr' = mgr
             /\ metrics' /= metrics
             /\ metrics'.insertions = metrics.insertions
             /\ metrics'.evictions = metrics.evictions
             /\ metrics'.bloom_checks = metrics.bloom_checks + 1
             /\ metrics'.lookup_count = metrics.lookup_count + 1
             /\ metrics'.bloom_hits + metrics'.bloom_misses
                   = metrics.bloom_hits + metrics.bloom_misses + 1
             /\ metrics'.cuckoo_hits + metrics'.cuckoo_misses
                   = metrics.cuckoo_hits + metrics.cuckoo_misses
                     + (metrics'.bloom_hits - metrics.bloom_hits)]_vars

\* A fast_check has returned MALICIOUS on a manager that has rebuilt its
\* filter and holds an entry reported twice: the entry still has its two
\* timestamps.
C31_Witness ==
    /\ ~raised
    /\ result = "MALICIOUS"
    /\ metrics.bloom_checks = 1
    /\ metrics.cuckoo_hits = 1
    /\ mgr.bloom_rebuilds >= 1
    /\ \E e \in Stored(cuckoo) : e.first_seen = 1 /\ e.last_seen = 2

(***************************************************************************)
(* SpecChecks: SpecConc's report_malicious_ip and fast_check steps, with   *)
(* up to MaxConcChecks fast_check calls.                                   *)
(***************************************************************************)
NextChecks ==
    \E t \in Threads :
        \/ \E key \in Keys, ts \in ConcTimestamps : ReportGet(t, key, ts)
        \/ ReportTouchRead(t)
        \/ ReportTouchWrite(t)
        \/ ReportInsert(t)
        \/ ReportBloomLoad(t)
        \/ ReportBloomInsert(t)
        \/ ReportReturn(t)
        \/ CounterRead(t)
        \/ CounterWrite(t)
        \/ \E key \in Keys : CheckBloomLoadUpTo(t, key, MaxConcChecks)
        \/ CheckMightContain(t)
        \/ CheckCuckoo(t)
        \/ CheckReturn(t)

SpecChecks == Init /\ [][NextChecks]_vars

\* C33 as stated (SpecChecks): the counters lose no update: when the N
\* fast_check calls issued from concurrent threads have all completed,
\* bloom_checks = N, bloom_hits + bloom_misses = N, lookup_count = N and
\* cuckoo_hits + cuckoo_misses = bloom_hits.
C33_CountersLoseNoUpdate ==
    (Quiescent /\ ~raised) =>
        /\ metrics.bloom_checks = calls.fast_check
        /\ metrics.bloom_hits + metrics.bloom_misses = calls.fast_check
        /\ metrics.lookup_count = calls.fast_check
        /\ metrics.cuckoo_hits + metrics.cuckoo_misses = metrics.bloom_hits

(***************************************************************************)
(* SpecOrder: threads calling report_malicious_ip, fast_check and          *)
(* maybe_rescale on one manager, with the RLock of each object explicit.   *)
(* A thread runs the instructions of loc[t].todo in turn: "acq" enters a   *)
(* with block of the object named (the table, the filter the thread's      *)
(* reference points to, or the new filter of its rebuild), "rel" leaves    *)
(* it, "do" runs the statements in between.  loc[t].held is the stack of   *)
(* locks thread t holds, one element per with block entered.  An "x += 1"  *)
(* is one step here.  Threads are scheduled fairly while a call runs.      *)
(***************************************************************************)
Acq(obj) == [i |-> "acq", arg |-> obj]
Rel(obj) == [i |-> "rel", arg |-> obj]
Do(name) == [i |-> "do", arg |-> name]

NoOrderLocals ==
    [op |-> "idle", key |-> 0, ts |-> 0, ref |-> NoRef, orphan |-> FALSE,
     hit |-> FALSE, active |-> 0, cur_m |-> 0, snapshot |-> <<>>,
     result |-> "None", todo |-> <<>>, held |-> <<>>]

\* The lock object an instruction names, for thread t: the table's, that of
\* the filter generation t has loaded, or that of t's own new filter.
LockId(t, obj) ==
    CASE obj = "cuckoo" -> [obj |-> "cuckoo", id |-> 0]
      [] obj = "bloom" -> [obj |-> "bloom", id |-> loc[t].ref]
      [] obj = "new_bloom" -> [obj |-> "new_bloom", id |-> t]

HeldBy(t) == {loc[t].held[i] : i \in 1..Len(loc[t].held)}

\* threading.Lock in place of RLock: the owner cannot enter again.
LockAcquirable(t, id) == \A u \in Threads : id \notin HeldBy(u)

\* threading.RLock.acquire: no other thread owns the lock.
RLockAcquirable(t, id) == \A u \in Threads \ {t} : id \notin HeldBy(u)

\* cuckoo.get(key).
GetCode == <<Acq("cuckoo"), Do("get"), Rel("cuckoo")>>

\* len(self.cuckoo).
LenCode == <<Acq("cuckoo"), Rel("cuckoo")>>

\* One insert(entry.ip, entry) of _rehash, from inside the table's lock: the
\* with block of insert and, in it, that of load_factor.
ReinsertCode == <<Acq("cuckoo"), Acq("cuckoo"), Rel("cuckoo"), Rel("cuckoo")>>

\* cuckoo.insert(key, new_entry): the with block, load_factor() in it, then
\* the placement, with the reinserts of a rehash.
InsertCode ==
    <<Acq("cuckoo"), Acq("cuckoo"), Rel("cuckoo"), Do("insert_plan"),
      Do("insert"), Rel("cuckoo")>>

\* A getter of self.bloom (estimate_fpr, m_bits, k_hash), the statement
\* name in its with block.
BloomCode(name) == <<Do("bloom_load"), Acq("bloom"), Do(name), Rel("bloom")>>

\* report_malicious_ip.
ReportCode == GetCode \o <<Do("r_branch")>>
ReportNewCode ==
    InsertCode \o <<Do("bloom_load"), Acq("bloom"), Do("bloom_insert"), Rel("bloom"),
                    Do("record_insertion")>>

\* fast_check.
CheckCode == <<Do("bloom_load"), Acq("bloom"), Do("might_contain"), Rel("bloom"),
               Do("c_branch")>>
CheckHitCode == GetCode \o <<Do("record_cuckoo_hit")>>

\* maybe_rescale, and _rebuild_bloom with the print that follows it.
RescaleCode ==
    <<Acq("cuckoo"), Do("rehash_plan"), Do("maybe_rehash"), Rel("cuckoo"), Do("s_rehashed")>>
FprCode == BloomCode("estimate_fpr") \o <<Do("s_branch")>>
RebuildCode ==
    BloomCode("m_bits") \o BloomCode("k_hash")
    \o <<Acq("cuckoo"), Do("active"), Rel("cuckoo")>>
    \o BloomCode("current_m")
    \o <<Acq("cuckoo"), Do("snapshot"), Rel("cuckoo"),
         Acq("new_bloom"), Rel("new_bloom"), Do("swap")>>
    \o LenCode \o <<Do("bloom_rescale_no")>>

InitOrder ==
    /\ \E cap \in ManagerCapacities : cuckoo = Obj(CuckooNew(cap))
    /\ \E p \in InitBloomParams : bloom = BloomFilterNew(p[1], p[2])
    /\ mgr = [bloom_rebuilds |-> 0, cuckoo_rescale_no |-> 1,
              bloom_rescale_no |-> 1, bloom_rebuild_events |-> <<>>]
    /\ metrics = MetricsNew
    /\ raised = FALSE
    /\ result = "None"
    /\ status = [k \in Keys |-> "unknown"]
    /\ bfKeys = {}
    /\ pc = [t \in Threads |-> "idle"]
    /\ loc = [t \in Threads |-> NoOrderLocals]
    /\ retired = NoRetired
    /\ last = NoCall
    /\ calls = NoCalls

\* A call begins.
OrderCall(t, op, key, ts) ==
    /\ ~raised /\ pc[t] = "idle"
    /\ calls[op] < (CASE op = "report" -> MaxInsertions
                      [] op = "fast_check" -> MaxChecks
                      [] op = "maybe_rescale" -> MaxRescales)
    /\ calls' = [calls EXCEPT ![op] = @ + 1]
    /\ pc' = [pc EXCEPT ![t] = "run"]
    /\ loc' = [loc EXCEPT ![t] =
                  [NoOrderLocals EXCEPT !.op = op, !.key = key, !.ts = ts,
                      !.todo = CASE op = "report" -> ReportCode
                                 [] op = "fast_check" -> CheckCode
                                 [] op = "maybe_rescale" -> RescaleCode]]
    /\ UNCHANGED <<cuckoo, bloom, mgr, metrics, raised, result, status, bfKeys, retired, last>>

\* with self._lock: the thread enters the block once the lock is its own.
OrderAcquire(t) ==
    /\ ~raised /\ pc[t] = "run"
    /\ Head(loc[t].todo).i = "acq"
    /\ RLockAcquirable(t, LockId(t, Head(loc[t].todo).arg))
    /\ loc' = [loc EXCEPT ![t].held = <<LockId(t, Head(loc[t].todo).arg)>> \o @,
                          ![t].todo = Tail(@)]
    /\ UNCHANGED <<cuckoo, bloom, mgr, metrics, raised, result, status, bfKeys, pc, retired, last, calls>>

\* The with block ends.
OrderRelease(t) ==
    /\ ~raised /\ pc[t] = "run"
    /\ Head(loc[t].todo).i = "rel"
    /\ loc' = [loc EXCEPT ![t].held = Tail(@), ![t].todo = Tail(@)]
    /\ UNCHANGED <<cuckoo, bloom, mgr, metrics, raised, result, status, bfKeys, pc, retired, last, calls>>

\* The thread goes on with locals l, or returns when nothing is left to do.
OrderGoOn(t, l) ==
    /\ loc' = [loc EXCEPT ![t] = IF l.todo = <<>> THEN NoOrderLocals ELSE l]
    /\ pc' = [pc EXCEPT ![t] = IF l.todo = <<>> THEN "idle" ELSE "run"]

\* The filter object a reference of SpecOrder points to.
OrderDeref(ref) == IF ref = retired.gen THEN bloom ELSE retired.objs[ref + 1]

\* The statements between two lock operations.
OrderDo(t) ==
    /\ ~raised /\ pc[t] = "run"
    /\ Head(loc[t].todo).i = "do"
    /\ LET name == Head(loc[t].todo).arg
           l == [loc[t] EXCEPT !.todo = Tail(@)]
           key == loc[t].key
           T == Tbl(cuckoo)
       IN CASE name = "get" ->
                 /\ OrderGoOn(t, [l EXCEPT !.hit = Get(T, key) /= None])
                 /\ UNCHANGED <<cuckoo, bloom, mgr, metrics, raised, result, status, bfKeys, retired>>
            [] name = "r_branch" ->
                 /\ IF loc[t].hit
                    THEN /\ cuckoo' = IF loc[t].orphan THEN cuckoo
                                      ELSE Obj(TouchLastSeen(T, key, loc[t].ts))
                         /\ status' = [status EXCEPT ![key] = "tracked"]
                         /\ OrderGoOn(t, l)
                    ELSE /\ OrderGoOn(t, [l EXCEPT !.todo = ReportNewCode])
                         /\ UNCHANGED <<cuckoo, status>>
                 /\ UNCHANGED <<bloom, mgr, metrics, raised, result, bfKeys, retired>>
            [] name = "insert_plan" ->
                 /\ OrderGoOn(t, [l EXCEPT !.todo =
                        IF T.size > 0 /\ Insert(T, key, ReputationEntry(key, loc[t].ts, loc[t].ts)).rehash_count
                                            > T.rehash_count
                        THEN ReinsertCode \o @ ELSE @])
                 /\ UNCHANGED <<cuckoo, bloom, mgr, metrics, raised, result, status, bfKeys, retired>>
            [] name = "insert" ->
                 LET T1 == Insert(T, key, ReputationEntry(key, loc[t].ts, loc[t].ts))
                 IN /\ cuckoo' = Obj(T1)
                    /\ raised' = ~T1.ok
                    /\ pc' = [pc EXCEPT ![t] = IF T1.ok THEN "run" ELSE "idle"]
                    /\ loc' = [u \in Threads |->
                                  IF u = t THEN (IF T1.ok THEN l ELSE NoOrderLocals)
                                  ELSE IF T1.ok /\ loc[u].key = key /\ loc[u].op = "report" /\ loc[u].hit
                                  THEN [loc[u] EXCEPT !.orphan = TRUE] ELSE loc[u]]
                    /\ UNCHANGED <<bloom, mgr, metrics, result, status, bfKeys, retired>>
            [] name = "bloom_load" ->
                 /\ OrderGoOn(t, [l EXCEPT !.ref = retired.gen])
                 /\ UNCHANGED <<cuckoo, bloom, mgr, metrics, raised, result, status, bfKeys, retired>>
            [] name = "bloom_insert" ->
                 /\ IF loc[t].ref = retired.gen
                    THEN /\ bloom' = BloomInsert(bloom, key)
                         /\ bfKeys' = bfKeys \cup {key}
                         /\ UNCHANGED retired
                    ELSE /\ retired' = [retired EXCEPT !.objs[loc[t].ref + 1] = BloomInsert(@, key)]
                         /\ UNCHANGED <<bloom, bfKeys>>
                 /\ OrderGoOn(t, l)
                 /\ UNCHANGED <<cuckoo, mgr, metrics, raised, result, status>>
            [] name = "record_insertion" ->
                 /\ metrics' = [metrics EXCEPT !.insertions = @ + 1]
                 /\ status' = [status EXCEPT ![key] = "tracked"]
                 /\ OrderGoOn(t, l)
                 /\ UNCHANGED <<cuckoo, bloom, mgr, raised, result, bfKeys, retired>>
            [] name = "might_contain" ->
                 /\ OrderGoOn(t, [l EXCEPT !.hit = MightContain(OrderDeref(loc[t].ref), key)])
                 /\ UNCHANGED <<cuckoo, bloom, mgr, metrics, raised, result, status, bfKeys, retired>>
            [] name = "c_branch" ->
                 /\ metrics' = [metrics EXCEPT
                                   !.bloom_checks = @ + 1,
                                   !.bloom_hits = IF loc[t].hit THEN @ + 1 ELSE @,
                                   !.bloom_misses = IF loc[t].hit THEN @ ELSE @ + 1,
                                   !.lookup_count = IF loc[t].hit THEN @ ELSE @ + 1]
                 /\ result' = IF loc[t].hit THEN result ELSE "CLEAN"
                 /\ OrderGoOn(t, [l EXCEPT !.todo = IF loc[t].hit THEN CheckHitCode ELSE <<>>])
                 /\ UNCHANGED <<cuckoo, bloom, mgr, raised, status, bfKeys, retired>>
            [] name = "record_cuckoo_hit" ->
                 /\ metrics' = [metrics EXCEPT
                                   !.cuckoo_hits = IF loc[t].hit THEN @ + 1 ELSE @,
                                   !.cuckoo_misses = IF loc[t].hit THEN @ ELSE @ + 1,
                                   !.lookup_count = @ + 1]
                 /\ result' = IF loc[t].hit THEN "MALICIOUS" ELSE "BLOOM_FALSE_POSITIVE"
                 /\ OrderGoOn(t, l)
                 /\ UNCHANGED <<cuckoo, bloom, mgr, raised, status, bfKeys, retired>>
            [] name = "rehash_plan" ->
                 /\ OrderGoOn(t, [l EXCEPT
                        !.hit = MaybeRehashDue(T, LoadLimitNum, LoadLimitDen),
                        !.todo = IF T.size > 0 /\ MaybeRehashDue(T, LoadLimitNum, LoadLimitDen)
                                 THEN ReinsertCode \o @ ELSE @])
                 /\ UNCHANGED <<cuckoo, bloom, mgr, metrics, raised, result, status, bfKeys, retired>>
            [] name = "maybe_rehash" ->
                 LET T1 == MaybeRehash(T, LoadLimitNum, LoadLimitDen, CuckooGrowthFactor)
                 IN /\ cuckoo' = Obj(T1)
                    /\ raised' = ~T1.ok
                    /\ OrderGoOn(t, IF T1.ok THEN l ELSE [l EXCEPT !.todo = <<>>])
                    /\ UNCHANGED <<bloom, mgr, metrics, result, status, bfKeys, retired>>
            [] name = "s_rehashed" ->
                 /\ OrderGoOn(t, [l EXCEPT !.todo =
                        IF loc[t].hit THEN LenCode \o <<Do("cuckoo_rescale_no")>> ELSE FprCode])
                 /\ UNCHANGED <<cuckoo, bloom, mgr, metrics, raised, result, status, bfKeys, retired>>
            [] name = "cuckoo_rescale_no" ->
                 /\ mgr' = [mgr EXCEPT !.cuckoo_rescale_no = @ + 1]
                 /\ OrderGoOn(t, [l EXCEPT !.todo = FprCode])
                 /\ UNCHANGED <<cuckoo, bloom, metrics, raised, result, status, bfKeys, retired>>
            [] name = "estimate_fpr" ->
                 /\ OrderGoOn(t, [l EXCEPT !.hit = FprExceeded(OrderDeref(loc[t].ref))])
                 /\ UNCHANGED <<cuckoo, bloom, mgr, metrics, raised, result, status, bfKeys, retired>>
            [] name = "s_branch" ->
                 /\ OrderGoOn(t, [l EXCEPT !.todo = IF loc[t].hit THEN RebuildCode ELSE <<>>])
                 /\ UNCHANGED <<cuckoo, bloom, mgr, metrics, raised, result, status, bfKeys, retired>>
            [] name \in {"m_bits", "k_hash"} ->
                 /\ OrderGoOn(t, l)
                 /\ UNCHANGED <<cuckoo, bloom, mgr, metrics, raised, result, status, bfKeys, retired>>
            [] name = "active" ->
                 /\ OrderGoOn(t, [l EXCEPT !.active = Active(T)])
                 /\ UNCHANGED <<cuckoo, bloom, mgr, metrics, raised, result, status, bfKeys, retired>>
            [] name = "current_m" ->
                 /\ OrderGoOn(t, [l EXCEPT !.cur_m = OrderDeref(loc[t].ref).m])
                 /\ UNCHANGED <<cuckoo, bloom, mgr, metrics, raised, result, status, bfKeys, retired>>
            [] name = "snapshot" ->
                 /\ OrderGoOn(t, [l EXCEPT !.snapshot = IpsOf(Entries(T))])
                 /\ UNCHANGED <<cuckoo, bloom, mgr, metrics, raised, result, status, bfKeys, retired>>
            [] name = "swap" ->
                 LET new_m == NewMOf(loc[t].cur_m, loc[t].active)
                     new_k == NewK(new_m, loc[t].active)
                 IN /\ bloom' = BloomInsertMany(BloomFilterNew(new_m, new_k), loc[t].snapshot)
                    /\ retired' = [gen |-> retired.gen + 1, objs |-> Append(retired.objs, bloom)]
                    /\ bfKeys' = {loc[t].snapshot[i] : i \in 1..Len(loc[t].snapshot)}
                    /\ mgr' = [mgr EXCEPT
                                  !.bloom_rebuilds = @ + 1,
                                  !.bloom_rebuild_events =
                                      Append(@, [active |-> loc[t].active, m_bits |-> new_m,
                                                 k_hash |-> new_k, prev_m_bits |-> loc[t].cur_m,
                                                 m_req |-> MReq(loc[t].active)])]
                    /\ OrderGoOn(t, l)
                    /\ UNCHANGED <<cuckoo, metrics, raised, result, status>>
            [] name = "bloom_rescale_no" ->
                 /\ mgr' = [mgr EXCEPT !.bloom_rescale_no = @ + 1]
                 /\ OrderGoOn(t, l)
                 /\ UNCHANGED <<cuckoo, bloom, metrics, raised, result, status, bfKeys, retired>>
    /\ UNCHANGED <<last, calls>>

NextOrder ==
    \E t \in Threads :
        \/ \E key \in LockKeys, ts \in ConcTimestamps : OrderCall(t, "report", key, ts)
        \/ \E key \in LockKeys : OrderCall(t, "fast_check", key, 0)
        \/ OrderCall(t, "maybe_rescale", 0, 0)
        \/ OrderAcquire(t)
        \/ OrderRelease(t)
        \/ OrderDo(t)

\* Thread t waits for a lock another thread holds.
Waiting(t) ==
    /\ pc[t] = "run"
    /\ Head(loc[t].todo).i = "acq"
    /\ ~RLockAcquirable(t, LockId(t, Head(loc[t].todo).arg))

\* A step of a running call.  A running thread that does not wait for a
\* lock can take its next step (OrderAcquire, OrderRelease or OrderDo), and
\* these are the steps that begin no call and change a thread's locals: the
\* action is written by that guard and that effect.  (Its first disjunct is
\* one value of loc' that differs from loc.)
OrderStep ==
    /\ ~raised
    /\ \E t \in Threads : pc[t] = "run" /\ ~Waiting(t)
    /\ calls' = calls
    /\ \/ \E t \in Threads : pc[t] = "run" /\ loc' = [loc EXCEPT ![t].todo = Tail(@)]
       \/ loc' /= loc

\* The scheduler keeps running some thread that can run.
SpecOrder == InitOrder /\ [][NextOrder]_vars /\ WF_<<calls, loc>>(OrderStep)

\* C32 (SpecOrder): no manager call holds a Bloom lock and the Cuckoo lock
\* at the same time: the locks a thread holds are all of one object, an
\* inner lock being entered and left within one inner call; no state has
\* every running call waiting for a lock; and, the threads being scheduled
\* fairly, every call that starts returns (or the run ends with the
\* MemoryError of an insert).
C32_NoLockNestingNoDeadlock ==
    /\ [](\A t \in Threads : Cardinality(HeldBy(t)) <= 1)
    /\ []((~raised /\ \E t \in Threads : pc[t] = "run") =>
              (\E t \in Threads : pc[t] = "run" /\ ~Waiting(t)))
    /\ \A t \in Threads : (pc[t] = "run") ~> (pc[t] = "idle" \/ raised)

\* A fast_check waits for the table's lock while a maybe_rescale holds it
\* three blocks deep, in an insert of its rehash.
C32_Witness ==
    \E t \in Threads, u \in Threads :
        /\ Waiting(t) /\ loc[t].op = "fast_check"
        /\ loc[u].op = "maybe_rescale" /\ Len(loc[u].held) = 3
        /\ HeldBy(u) = {LockId(u, "cuckoo")}


(***************************************************************************)
(* SpecEvict: the earlier manager of src/core under insert_malicious calls *)
(* alone, enough of them for one ip to fill both of its buckets twice.     *)
(***************************************************************************)
EvictIps == {1, 3}

NextEvict == \E ip \in EvictIps : InsertMaliciousUpTo(ip, MaxEvictCalls)

SpecEvict == InitLegacy /\ [][NextEvict]_vars

C35_ResizeKeepsKeys ==
    [][cuckoo'.num_buckets /= cuckoo.num_buckets
       => /\ ~raised'
          /\ \A key \in cuckoo'.items : CuckooLookup(cuckoo', mgr.settings.salt, key)
          /\ cuckoo'.size = cuckoo.size
                             + (IF last'.op = "insert_malicious" THEN 1 ELSE 0)
                             - (IF last'.op = "delete_malicious" THEN 1 ELSE 0)]_vars


(***************************************************************************)
(* SpecAlternate: CuckooFilter objects of every construction (initial      *)
(* capacity below, at and above 1024, growth factor 2 or 3), resized any   *)
(* number of times, and _alternate_index called on them.                   *)
(***************************************************************************)
AlternateCapacities == {1, 1024, 1500, 10000}
AlternateGrowthFactors == {1, 2, 3}
AlternateFingerprints == {0, 1, 11, 22, 33, 4660}
\* The bucket indexes tried: the first ones and the last one.
AlternateBuckets(c) == (0..15) \cup {c.num_buckets - 1}

InitAlternate ==
    /\ \E initial_capacity \in AlternateCapacities,
          growth_factor \in AlternateGrowthFactors :
          /\ cuckoo = CuckooFilterNew(initial_capacity)
          /\ mgr = [settings |-> [LegacySettings(500000, 1)
                                    EXCEPT !.growth_factor = growth_factor],
                    stats |-> LegacyStatsNew]
    /\ bloom = LegacyBloomNew(10, 500000)
    /\ metrics = MetricsNew
    /\ raised = FALSE
    /\ result = "None"
    /\ status = [k \in Keys |-> "unknown"]
    /\ bfKeys = {}
    /\ pc = [t \in Threads |-> "idle"]
    /\ loc = [t \in Threads |-> NoLocals]
    /\ retired = NoRetired
    /\ last = [op |-> "none", bucket_idx |-> 0, fingerprint |-> 0, returned |-> 0]
    /\ calls = 0

\* resize().
AlternateResize ==
    /\ cuckoo.num_buckets * Max(2, mgr.settings.growth_factor) <= MaxBuckets
    /\ cuckoo' = CuckooResize(cuckoo, mgr.settings.growth_factor)
    /\ last' = [op |-> "resize", bucket_idx |-> 0, fingerprint |-> 0, returned |-> 0]
    /\ UNCHANGED <<bloom, mgr, metrics, raised, result, status, bfKeys, pc, loc,
                   retired, calls>>

\* _alternate_index(bucket_idx, fingerprint).
AlternateCall(bucket_idx, fingerprint) ==
    /\ last' = [op |-> "_alternate_index", bucket_idx |-> bucket_idx,
                fingerprint |-> fingerprint,
                returned |-> AlternateIndex(cuckoo, bucket_idx, fingerprint)]
    /\ UNCHANGED <<bloom, cuckoo, mgr, metrics, raised, result, status, bfKeys, pc,
                   loc, retired, calls>>

NextAlternate ==
    \/ AlternateResize
    \/ \E bucket_idx \in AlternateBuckets(cuckoo), fingerprint \in AlternateFingerprints :
          AlternateCall(bucket_idx, fingerprint)

SpecAlternate == InitAlternate /\ [][NextAlternate]_vars

\* C36: the alternate of the alternate of a bucket is the bucket, for every
\* num_buckets a filter can have, every bucket index and every fingerprint.
C36_AlternateInvolution ==
    last.op = "_alternate_index"
    => AlternateIndex(cuckoo, last.returned, last.fingerprint) = last.bucket_idx


\* C37: the retention set items is the set of keys that have a stored pair
\* (insert_malicious stores the ip in the pair's value), and a delete that
\* returns True clears one slot and takes one off size.
C37_ItemsMirrorSlots ==
    [][/\ ~raised' => cuckoo'.items = {s.value : s \in cuckoo'.slots}
       /\ (last'.op = "delete_malicious" /\ result' = "True"
            /\ cuckoo'.num_buckets = cuckoo.num_buckets)
           => /\ cuckoo'.slots \subseteq cuckoo.slots
              /\ Cardinality(cuckoo.slots \ cuckoo'.slots) = 1
              /\ cuckoo'.size = cuckoo.size - 1]_vars


(***************************************************************************)
(* The earlier Cuckoo hash table of src/core/cuckoo_hash.py.  The table is *)
(* the record [capacity, growth_factor, table1, table2, size, ok]: table1  *)
(* and table2 are the sets of occupied slots [pos, fp, value] of the two   *)
(* lists, ok is FALSE once an allocation has raised MemoryError.  The keys *)
(* are six addresses named by their fingerprints (sha256, unsalted):       *)
(* 10.0.81.211, 10.1.174.172, 10.2.185.135, 10.1.159.233, 10.0.20.133 and  *)
(* 10.1.19.31.  The first three share a first position in 1024 slots, the  *)
(* first, fourth and fifth in 1500 slots.                                  *)
(***************************************************************************)
HashKeys == 1..6
HashCapacities == {1024, 1500}
HashGrowthFactors == {2, 3}

\* _fingerprint.
HashFingerprint == <<5, 1029, 2053, 1505, 3005, 7>>

\* CuckooHashTable(initial_capacity, growth_factor=growth_factor).
HashTableNew(initial_capacity, growth_factor) ==
    [capacity |-> Max(MinBuckets, initial_capacity), growth_factor |-> growth_factor,
     table1 |-> {}, table2 |-> {}, size |-> 0, ok |-> TRUE]

\* _hash2.
HashAlternate(t, fingerprint, pos1) == BitXor(pos1, fingerprint) % t.capacity

\* _need_resize: size / (2 * capacity) > 0.95.
NeedResize(t) == t.size * 100 > 95 * 2 * t.capacity

\* table[pos] is not None.
SlotTaken(table, pos) == \E e \in table : e.pos = pos

\* table[pos] = (fingerprint, value).
Store(table, pos, fingerprint, value) ==
    {e \in table : e.pos /= pos} \cup {[pos |-> pos, fp |-> fingerprint, value |-> value]}

\* The fingerprint of table[pos], an occupied slot.
FingerprintAt(table, pos) == (CHOOSE e \in table : e.pos = pos).fp

\* One round of the eviction loops of insert and _insert_fingerprint from
\* the walk w = [t, pos, returned]: the pair being inserted takes the slot
\* at pos, of table1 if it is occupied, else of table2 if that is, else the
\* empty slot of table1 (size += 1, return True); the walk goes on from the
\* alternate position of the pair it displaced.
EvictionRound(w, fingerprint, value) ==
    IF SlotTaken(w.t.table1, w.pos)
    THEN [t |-> [w.t EXCEPT !.table1 = Store(@, w.pos, fingerprint, value)],
          pos |-> HashAlternate(w.t, FingerprintAt(w.t.table1, w.pos),
                                w.pos % w.t.capacity),
          returned |-> FALSE]
    ELSE IF SlotTaken(w.t.table2, w.pos)
    THEN [t |-> [w.t EXCEPT !.table2 = Store(@, w.pos, fingerprint, value)],
          pos |-> HashAlternate(w.t, FingerprintAt(w.t.table2, w.pos),
                                w.pos % w.t.capacity),
          returned |-> FALSE]
    ELSE [t |-> [w.t EXCEPT !.table1 = Store(@, w.pos, fingerprint, value),
                            !.size = @ + 1],
          pos |-> w.pos, returned |-> TRUE]

\* "for _ in range(...)": n more rounds from the walk hist[Len(hist)], hist
\* being the walks after each round so far.  A round maps a walk to a walk,
\* so once a walk comes back the rest of the rounds go round the cycle.
\* <<table, returned>>.
RECURSIVE EvictionLoop(_, _, _, _)
EvictionLoop(hist, fingerprint, value, n) ==
    LET cur == hist[Len(hist)]
    IN IF n = 0 THEN <<cur.t, FALSE>>
       ELSE LET next == EvictionRound(cur, fingerprint, value)
                seen == {m \in 1..Len(hist) : hist[m] = next}
            IN IF next.returned THEN <<next.t, TRUE>>
               ELSE IF seen = {}
               THEN EvictionLoop(Append(hist, next), fingerprint, value, n - 1)
               ELSE LET m == CHOOSE x \in seen : TRUE
                        period == Len(hist) + 1 - m
                    IN <<hist[m + ((n - 1) % period)].t, FALSE>>

\* _insert_fingerprint(fingerprint, value): the table it leaves.
InsertFingerprint(t, fingerprint, value) ==
    LET pos == fingerprint % t.capacity
        alt_pos == HashAlternate(t, fingerprint, pos)
    IN IF ~SlotTaken(t.table1, pos)
       THEN [t EXCEPT !.table1 = Store(@, pos, fingerprint, value), !.size = @ + 1]
       ELSE IF ~SlotTaken(t.table2, alt_pos)
       THEN [t EXCEPT !.table2 = Store(@, alt_pos, fingerprint, value), !.size = @ + 1]
       ELSE EvictionLoop(<<[t |-> t, pos |-> alt_pos, returned |-> FALSE]>>, fingerprint,
                         value, ReinsertRounds)[1]

\* The entries of a list in the order of their positions.
RECURSIVE InOrder(_)
InOrder(table) ==
    IF table = {} THEN <<>>
    ELSE LET first == CHOOSE e \in table : \A f \in table : e.pos <= f.pos
         IN <<first>> \o InOrder(table \ {first})

RECURSIVE InsertFingerprints(_, _)
InsertFingerprints(t, old_items) ==
    IF old_items = <<>> THEN t
    ELSE InsertFingerprints(InsertFingerprint(t, Head(old_items).fp, Head(old_items).value),
                            Tail(old_items))

\* resize.
HashResize(t) ==
    IF t.capacity * t.growth_factor > MaxHashCapacity THEN [t EXCEPT !.ok = FALSE]
    ELSE InsertFingerprints([t EXCEPT !.capacity = t.capacity * t.growth_factor,
                                      !.table1 = {}, !.table2 = {}, !.size = 0],
                            InOrder(t.table1) \o InOrder(t.table2))

\* insert(key, value): the table it leaves, ok FALSE where it raised.
RECURSIVE HashInsert(_, _, _)
HashInsert(t0, key, value) ==
    LET t == IF NeedResize(t0) THEN HashResize(t0) ELSE t0
        fingerprint == HashFingerprint[key]
        pos1 == fingerprint % t.capacity
        pos2 == HashAlternate(t, fingerprint, pos1)
    IN IF ~t.ok THEN t
       ELSE IF ~SlotTaken(t.table1, pos1)
       THEN [t EXCEPT !.table1 = Store(@, pos1, fingerprint, value), !.size = @ + 1]
       ELSE IF ~SlotTaken(t.table2, pos2)
       THEN [t EXCEPT !.table2 = Store(@, pos2, fingerprint, value), !.size = @ + 1]
       ELSE LET walk == EvictionLoop(<<[t |-> t, pos |-> pos1, returned |-> FALSE]>>,
                                     fingerprint, value, InsertRounds)
            IN IF walk[2] THEN walk[1]
               ELSE LET r == HashResize(walk[1])
                    IN IF r.ok THEN HashInsert(r, key, value) ELSE r

\* lookup(key) is not None.
HashLookup(t, key) ==
    LET fingerprint == HashFingerprint[key]
        pos1 == fingerprint % t.capacity
        pos2 == HashAlternate(t, fingerprint, pos1)
    IN \/ \E e \in t.table1 : e.pos = pos1 /\ e.fp = fingerprint
       \/ \E e \in t.table2 : e.pos = pos2 /\ e.fp = fingerprint

InitHash ==
    /\ \E initial_capacity \in HashCapacities, growth_factor \in HashGrowthFactors :
          cuckoo = HashTableNew(initial_capacity, growth_factor)
    /\ bloom = LegacyBloomNew(10, 500000)
    /\ mgr = [settings |-> LegacySettings(500000, 1), stats |-> LegacyStatsNew]
    /\ metrics = MetricsNew
    /\ raised = FALSE
    /\ result = "None"
    /\ status = [k \in Keys |-> "unknown"]
    /\ bfKeys = {}
    /\ pc = [t \in Threads |-> "idle"]
    /\ loc = [t \in Threads |-> NoLocals]
    /\ retired = NoRetired
    /\ last = [op |-> "none", key |-> 0]
    /\ calls = 0

\* insert(key, key).
HashInsertCall(key) ==
    /\ ~raised
    /\ calls < MaxHashCalls
    /\ cuckoo' = HashInsert(cuckoo, key, key)
    /\ raised' = ~cuckoo'.ok
    /\ result' = IF cuckoo'.ok THEN "True" ELSE "None"
    /\ last' = [op |-> "insert", key |-> key]
    /\ calls' = calls + 1
    /\ UNCHANGED <<bloom, mgr, metrics, status, bfKeys, pc, loc, retired>>

NextHash == \E key \in HashKeys : HashInsertCall(key)

SpecHash == InitHash /\ [][NextHash]_vars

\* The stored pairs (fingerprint, value) equal to that of key, in both lists.
PairsOf(t, key) ==
    Cardinality({e \in t.table1 : e.fp = HashFingerprint[key] /\ e.value = key})
    + Cardinality({e \in t.table2 : e.fp = HashFingerprint[key] /\ e.value = key})

\* C38: an insert that returns keeps every stored pair and stores the new
\* pair once more, lookup then returns a value for every key that has been
\* inserted, and size is the number of occupied slots.
C38_InsertKeepsPairs ==
    [][(last'.op = "insert" /\ calls' = calls + 1 /\ ~raised')
       => /\ \A key \in HashKeys :
                PairsOf(cuckoo', key)
                    = PairsOf(cuckoo, key) + (IF key = last'.key THEN 1 ELSE 0)
          /\ \A key \in HashKeys : PairsOf(cuckoo', key) > 0 => HashLookup(cuckoo', key)
          /\ HashLookup(cuckoo', last'.key)
          /\ cuckoo'.size = Cardinality(cuckoo'.table1) + Cardinality(cuckoo'.table2)]_vars


(***************************************************************************)
(* SpecUnion: two BloomFilter objects of src/core/bloom_filter.py, self    *)
(* (the variable bloom, salt mgr.settings.salt) and other (mgr.other, salt *)
(* mgr.other_salt), items added to either, then self.union(other) and      *)
(* check calls on the filter it returns.  mgr.made is <<>> until union has *)
(* returned, and then holds the returned filter and the salt its           *)
(* constructor drew.                                                       *)
(***************************************************************************)
UnionExpectedItems == {1, 10}

\* check on a filter whose bit_array may be shorter than its size, from the
\* i-th position on: "True", "False", or "IndexError" where a position is
\* past the end of bit_array.
RECURSIVE CheckFrom(_, _, _, _)
CheckFrom(b, salt, item, i) ==
    IF i = b.hash_count THEN "True"
    ELSE LET idx == (Mmh3Seed0[salt][item] + i * Mmh3Seed42[salt][item]) % b.size
         IN IF idx >= Len(b.bit_array) THEN "IndexError"
            ELSE IF ~b.bit_array[idx + 1] THEN "False"
            ELSE CheckFrom(b, salt, item, i + 1)

\* union, for filters of one size and hash_count: a new filter for the sum
\* of the expected items, with the OR of the two bit arrays and the sum of
\* the inserted counts.
LegacyUnion(a, b) ==
    [LegacyBloomNew(a.expected_items + b.expected_items, a.fpr_target)
        EXCEPT !.bit_array = [i \in 1..Len(a.bit_array) |->
                                  a.bit_array[i] \/ b.bit_array[i]],
               !.inserted_count = a.inserted_count + b.inserted_count]

InitUnion ==
    /\ \E n1 \in UnionExpectedItems, n2 \in UnionExpectedItems,
          p1 \in LegacyFprLimits, p2 \in LegacyFprLimits,
          salt \in LegacySalts, other_salt \in LegacySalts :
          /\ bloom = LegacyBloomNew(n1, p1)
          /\ mgr = [settings |-> LegacySettings(p1, salt), stats |-> LegacyStatsNew,
                    other |-> LegacyBloomNew(n2, p2), other_salt |-> other_salt,
                    made |-> <<>>]
    /\ cuckoo = CuckooFilterNew(MinBuckets)
    /\ metrics = MetricsNew
    /\ raised = FALSE
    /\ result = "None"
    /\ status = [k \in Keys |-> "unknown"]
    /\ bfKeys = {}
    /\ pc = [t \in Threads |-> "idle"]
    /\ loc = [t \in Threads |-> NoLocals]
    /\ retired = NoRetired
    /\ last = [op |-> "none", ip |-> 0]
    /\ calls = 0

\* self.add(item).
UnionAddSelf(item) ==
    /\ ~raised /\ mgr.made = <<>>
    /\ calls < MaxUnionAdds
    /\ bloom' = LegacyAdd(bloom, mgr.settings.salt, item)
    /\ last' = [op |-> "add", ip |-> item]
    /\ calls' = calls + 1
    /\ UNCHANGED <<cuckoo, mgr, metrics, raised, result, status, bfKeys, pc, loc, retired>>

\* other.add(item).
UnionAddOther(item) ==
    /\ ~raised /\ mgr.made = <<>>
    /\ calls < MaxUnionAdds
    /\ mgr' = [mgr EXCEPT !.other = LegacyAdd(@, mgr.other_salt, item)]
    /\ last' = [op |-> "add", ip |-> item]
    /\ calls' = calls + 1
    /\ UNCHANGED <<bloom, cuckoo, metrics, raised, result, status, bfKeys, pc, loc, retired>>

\* self.union(other): ValueError unless size and hash_count agree; the new
\* filter is built without a salt argument, so it draws its own.
UnionCall ==
    /\ ~raised /\ mgr.made = <<>>
    /\ last' = [op |-> "union", ip |-> 0]
    /\ IF bloom.size /= mgr.other.size \/ bloom.hash_count /= mgr.other.hash_count
       THEN raised' = TRUE /\ mgr' = mgr
       ELSE /\ raised' = FALSE
            /\ \E salt \in LegacySalts :
                  mgr' = [mgr EXCEPT !.made = <<[filter |-> LegacyUnion(bloom, mgr.other),
                                                salt |-> salt]>>]
    /\ UNCHANGED <<bloom, cuckoo, metrics, result, status, bfKeys, pc, loc, retired, calls>>

\* new_bf.check(item) on the filter union returned.
UnionCheck(item) ==
    /\ ~raised /\ mgr.made /= <<>>
    /\ result' = CheckFrom(mgr.made[1].filter, mgr.made[1].salt, item, 0)
    /\ raised' = (result' = "IndexError")
    /\ last' = [op |-> "check", ip |-> item]
    /\ UNCHANGED <<bloom, cuckoo, mgr, metrics, status, bfKeys, pc, loc, retired, calls>>

NextUnion ==
    \/ \E item \in LegacyIps : UnionAddSelf(item)
    \/ \E item \in LegacyIps : UnionAddOther(item)
    \/ UnionCall
    \/ \E item \in LegacyIps : UnionCheck(item)

SpecUnion == InitUnion /\ [][NextUnion]_vars

\* C39: the filter union returns reports every item added to either
\* operand, its inserted_count is the sum of theirs, and its size and
\* hash_count are the length of its bit array and the hash count its bits
\* were set with.
C39_UnionReportsItems ==
    mgr.made /= <<>>
    => LET new_bf == mgr.made[1].filter
       IN /\ \A item \in bloom.items \cup mgr.other.items :
                CheckFrom(new_bf, mgr.made[1].salt, item, 0) = "True"
          /\ new_bf.inserted_count = bloom.inserted_count + mgr.other.inserted_count
          /\ new_bf.size = Len(new_bf.bit_array)
          /\ new_bf.hash_count = bloom.hash_count

====
